---- MODULE Spec2Model ----
(***************************************************************************)
(* A model of the PDF translator's components:                             *)
(*   - TextTranslator (core/text_translator.py): skip heuristic, the       *)
(*     batch call and the per-item fallback;                               *)
(*   - parse_page_range (utils/page_range.py) and                          *)
(*     PDFTranslator._parse_page_range (core/translator.py);               *)
(*   - PDFExtractor.is_digital_pdf (core/pdf_extractor.py);                *)
(*   - PDFTranslator.translate with its raster and native pipelines        *)
(*     (core/translator.py);                                               *)
(*   - PDFRenderer (core/pdf_renderer.py): in-place text replacement;      *)
(*   - TextRenderer (core/renderer.py): erase and redraw on page images.   *)
(* Strings are sequences of one-character strings.  Python list indices    *)
(* are 0-based; sequences here are 1-based, so index i of the model is     *)
(* Python index i-1.  Page indices are kept 0-based as in the source.      *)
(***************************************************************************)
EXTENDS Integers, Sequences, FiniteSets, TLC

VARIABLES
    texts,        \* argument of translate_batch (for translate: the one text)
    tt_op,        \* which TextTranslator method ran: "none", "translate_batch", "translate"
    tt_pc,        \* "start", "returned" or "raised"
    results,      \* the returned list (for translate: the one returned string)
    requests,     \* log of calls made on the GoogleTranslator client, in order
    batchReply,   \* what the backend batch call did: kind "none", "raise" or "list" (and the list)
    singleReplies,\* what each individual backend call did, in call order
    expr,         \* page-range expression
    total_pages,  \* total_pages argument
    pr_pc,        \* "start" or "returned"
    pr_fn,        \* which parser ran: "none", "utils", "translator"
    pages,        \* the returned list of 0-based page indices
    warnings,     \* the parts for which a warning was printed, in order
    doc,          \* the open document: one plain-text descriptor per page
    md_pc,        \* "start" or "returned"
    is_digital,   \* result of is_digital_pdf
    sampled,      \* the page indices handed to has_text_on_page, in order
    cfg_mode,     \* config.mode: "missing" (no such attribute), "ocr", "digital", "auto"
    file_exists,  \* does input_path exist
    has_callback, \* was a progress callback passed to translate
    num_workers,  \* config.num_workers
    pl_pc,        \* position of PDFTranslator.translate
    pl_error,     \* the exception translate ended with, "none" if none
    mode,         \* the mode _determine_mode returned, "none" before
    mode_decisions,\* how many times _determine_mode ran
    handles,      \* state of each document handle: "unopened", "open", "closed"
    callbacks,    \* the progress callback's calls <<stage, current, total>>, in order
    stage_log,    \* the stages entered, in order
    page_indices, \* the selected 0-based page indices
    all_regions,  \* raster: one OCR region list per selected image
    tasks,        \* raster: one worker task per (image, regions) pair
    finish_order, \* raster: the task positions in the order the workers finished
    processed,    \* raster: the list _process_pages returned
    all_blocks,   \* native: (page_num, blocks) per selected page
    replaced,     \* native: pages on which replace_text_on_page ran
    output,       \* the output file: number of writes and its pages
    nr_doc,       \* PDFRenderer._doc: "none", "pages" (open, has pages), "empty" (open, no page)
    nr_blocks,    \* the blocks of the page being replaced
    nr_translations,\* the translations at hand for them
    nr_pc,        \* "idle" or "ready"
    nr_op,        \* the last PDFRenderer call: "none", "open", "close", "replace", "save"
    nr_error,     \* the exception it raised, "none" if it returned
    nr_passed,    \* how many blocks the last replace_text_on_page call was given
    nr_calls,     \* number of replace_text_on_page and save calls so far
    page_ops,     \* the operations performed on the page, in order
    nr_saves,     \* number of times the document was written
    rr_pc,        \* TextRenderer: "idle", "start" or "returned"
    rr_op,        \* which TextRenderer method ran: "none", "render", "contrast"
    rr_regions,   \* the regions argument of render_translations
    rr_translations,\* the translations argument
    rr_font,      \* what fonts the host has: "truetype", "default" or "unmeasurable"
    text_colors,  \* the list _remove_text returned
    draw_ops,     \* the fills and text draws made on the working copy, in order
    cc_bg,        \* argument of a direct _get_contrasting_color call
    cc_color,     \* its result
    font_path,    \* PDFRenderer._font_path names a font file that exists
    ins_pc,       \* position in the insertion loop of replace_text_on_page
    ins_total,    \* length of the list `replacements`
    ins_index,    \* position of the replacement _insert_text is working on
    tw,           \* number of texts appended to the TextWriter of this _insert_text call
    ins_log,      \* per replacement: the tiers tried, in order, as [tier, ok]
    written,      \* per replacement: how many times its text was written to the page
    ins_error     \* the exception the loop ended with, "none" if none

ttVars == <<texts, tt_op, tt_pc, results, requests, batchReply, singleReplies>>
prVars == <<expr, total_pages, pr_pc, pr_fn, pages, warnings>>
mdVars == <<doc, md_pc, is_digital, sampled>>
plVars == <<cfg_mode, file_exists, has_callback, num_workers, pl_pc, pl_error,
            mode, mode_decisions, handles, callbacks, stage_log, page_indices,
            all_regions, tasks, finish_order, processed, all_blocks, replaced,
            output>>
nrVars == <<nr_doc, nr_blocks, nr_translations, nr_pc, nr_op, nr_error, nr_passed,
            nr_calls, page_ops, nr_saves>>
rrVars == <<rr_pc, rr_op, rr_regions, rr_translations, rr_font, text_colors,
            draw_ops, cc_bg, cc_color>>
insVars == <<font_path, ins_pc, ins_total, ins_index, tw, ins_log, written, ins_error>>
vars == <<texts, tt_op, tt_pc, results, requests, batchReply, singleReplies,
          expr, total_pages, pr_pc, pr_fn, pages, warnings,
          doc, md_pc, is_digital, sampled,
          cfg_mode, file_exists, has_callback, num_workers, pl_pc, pl_error,
          mode, mode_decisions, handles, callbacks, stage_log, page_indices,
          all_regions, tasks, finish_order, processed, all_blocks, replaced,
          output,
          nr_doc, nr_blocks, nr_translations, nr_pc, nr_op, nr_error, nr_passed,
          nr_calls, page_ops, nr_saves,
          rr_pc, rr_op, rr_regions, rr_translations, rr_font, text_colors,
          draw_ops, cc_bg, cc_color,
          font_path, ins_pc, ins_total, ins_index, tw, ins_log, written, ins_error>>

----------------------------------------------------------------------------
(* Generic helpers                                                         *)

Min(a, b) == IF a < b THEN a ELSE b
Max(a, b) == IF a > b THEN a ELSE b

\* All sequences over S of length 0..n
SeqsUpTo(S, n) == UNION {[1..k -> S] : k \in 0..n}

Whitespace == {" ", "\t"}
DigitChars == {"0", "1", "2", "3", "4", "5", "6", "7", "8", "9"}

RECURSIVE LStrip(_)
\* str.lstrip(): drop leading whitespace
LStrip(s) ==
    IF s = <<>> THEN <<>>
    ELSE IF Head(s) \in Whitespace THEN LStrip(Tail(s)) ELSE s

RECURSIVE RStrip(_)
\* str.rstrip(): drop trailing whitespace
RStrip(s) ==
    IF s = <<>> THEN <<>>
    ELSE IF s[Len(s)] \in Whitespace THEN RStrip(SubSeq(s, 1, Len(s) - 1)) ELSE s

\* str.strip()
Strip(s) == RStrip(LStrip(s))

\* str.isdigit(): non-empty and every character a digit
IsDigit(s) == Len(s) > 0 /\ \A i \in 1..Len(s) : s[i] \in DigitChars

----------------------------------------------------------------------------
(* TextTranslator                                                          *)

\* Bound of the translator inputs
MaxTexts == 3

\* The texts of a batch: empty, blank, a single character, padded and
\* unpadded numbers, words, and digits around a blank
TextPool ==
    { <<>>,
      <<" ">>,
      <<"a">>,
      <<" ", "a">>,
      <<"5">>,
      <<"5", "5">>,
      <<" ", "5", "5", " ">>,
      <<"a", "a">>,
      <<"a", "5">>,
      <<"5", " ", "5">> }

\* The backend's translation of a source text: a non-empty string that is
\* tagged with the text it translates.
Tr(t) == <<"#">> \o t

\* A falsy answer of the backend (None or "")
Falsy == <<>>

\* faulty variant of _should_skip: the text is not stripped first
should_skip_NoStrip(text) == Len(text) < 2 \/ IsDigit(text)

\* TextTranslator._should_skip
should_skip(text) ==
    LET stripped == Strip(text)
    IN  Len(stripped) < 2 \/ IsDigit(stripped)

RECURSIVE TranslatableFrom(_, _)
\* the loop of translate_batch that collects translatable_indices
TranslatableFrom(ts, i) ==
    IF i > Len(ts) THEN <<>>
    ELSE IF should_skip(ts[i]) THEN TranslatableFrom(ts, i + 1)
         ELSE <<i>> \o TranslatableFrom(ts, i + 1)

translatable_indices(ts) == TranslatableFrom(ts, 1)

\* translatable_texts
translatable_texts(ts) ==
    LET idx == translatable_indices(ts) IN [j \in 1..Len(idx) |-> ts[idx[j]]]

\* results after the first loop: skipped texts copied, the rest still ""
InitialResults(ts) == [i \in 1..Len(ts) |-> IF should_skip(ts[i]) THEN ts[i] ELSE <<>>]

\* What the backend's batch call may return for the batch `batch` when it
\* does not raise: a list of any length 0..Len(batch)+1 whose j-th element is the
\* translation of batch[j] or a falsy value (an element past the end of the
\* batch is a translation of nothing that was sent).
BatchLists(batch) ==
    UNION {
        { [j \in 1..k |-> IF tags[j] = "ok"
                           THEN (IF j <= Len(batch) THEN Tr(batch[j]) ELSE Tr(<<>>))
                           ELSE Falsy] : tags \in [1..k -> {"ok", "falsy"}] }
        : k \in 0..(Len(batch) + 1) }

\* What one individual backend call may do
SingleOutcomes == {"ok", "falsy", "raise"}

\* the success branch of translate_batch: zip(translatable_indices, translated)
BatchLoop(ts, idx, translated) ==
    [i \in 1..Len(ts) |->
        IF \E j \in 1..Min(Len(idx), Len(translated)) : idx[j] = i
        THEN LET j == CHOOSE j \in 1..Len(idx) : idx[j] = i
             IN  IF translated[j] # Falsy THEN translated[j] ELSE ts[i]
        ELSE InitialResults(ts)[i]]

\* faulty variant of _translate_individually: gives up at the first error
translate_individually_StopAtError(ts, idx, outcomes) ==
    [i \in 1..Len(ts) |->
        IF \E j \in 1..Len(idx) : idx[j] = i
        THEN LET j == CHOOSE j \in 1..Len(idx) : idx[j] = i
             IN  IF outcomes[j] = "ok" /\ \A h \in 1..j : outcomes[h] # "raise"
                 THEN Tr(ts[i]) ELSE ts[i]
        ELSE InitialResults(ts)[i]]

\* TextTranslator._translate_individually: results after the loop, when the
\* j-th individual call does outcomes[j]
translate_individually(ts, idx, outcomes) ==
    [i \in 1..Len(ts) |->
        IF \E j \in 1..Len(idx) : idx[j] = i
        THEN LET j == CHOOSE j \in 1..Len(idx) : idx[j] = i
             IN  IF outcomes[j] = "ok" THEN Tr(ts[i]) ELSE ts[i]
        ELSE InitialResults(ts)[i]]

\* the calls _translate_individually makes on the client, in order
IndividualRequests(ts, idx) ==
    [j \in 1..Len(idx) |-> [kind |-> "translate", arg |-> ts[idx[j]]]]

BatchRequest(ts) == [kind |-> "translate_batch", arg |-> translatable_texts(ts)]

\* translate_batch, `if not texts: return []`
TB_Empty ==
    /\ texts = <<>>
    /\ tt_pc' = "returned"
    /\ results' = <<>>
    /\ UNCHANGED <<requests, batchReply, singleReplies>>

\* translate_batch: GoogleTranslator(...) raises; nothing catches it
TB_CtorRaises ==
    /\ texts # <<>>
    /\ tt_pc' = "raised"
    /\ UNCHANGED <<results, requests, batchReply, singleReplies>>

\* translate_batch, `if not translatable_texts: return results`
TB_AllSkipped ==
    /\ texts # <<>>
    /\ translatable_indices(texts) = <<>>
    /\ tt_pc' = "returned"
    /\ results' = InitialResults(texts)
    /\ UNCHANGED <<requests, batchReply, singleReplies>>

\* translate_batch: the batch call returns a list
TB_BatchReturns ==
    /\ texts # <<>>
    /\ translatable_indices(texts) # <<>>
    /\ \E reply \in BatchLists(translatable_texts(texts)) :
        /\ batchReply' = [kind |-> "list", list |-> reply]
        /\ results' = BatchLoop(texts, translatable_indices(texts), reply)
    /\ requests' = <<BatchRequest(texts)>>
    /\ UNCHANGED singleReplies
    /\ tt_pc' = "returned"

\* translate_batch: the batch call raises, the items are translated one by one
TB_BatchRaises ==
    /\ texts # <<>>
    /\ translatable_indices(texts) # <<>>
    /\ batchReply' = [kind |-> "raise", list |-> <<>>]
    /\ \E outcomes \in [1..Len(translatable_indices(texts)) -> SingleOutcomes] :
        /\ singleReplies' = outcomes
        /\ results' = translate_individually(texts, translatable_indices(texts), outcomes)
    /\ requests' = <<BatchRequest(texts)>> \o
                   IndividualRequests(texts, translatable_indices(texts))
    /\ tt_pc' = "returned"

\* TextTranslator.translate_batch(texts)
TranslateBatch ==
    /\ tt_pc = "start"
    /\ tt_op' = "translate_batch"
    /\ (TB_Empty \/ TB_CtorRaises \/ TB_AllSkipped \/ TB_BatchReturns \/ TB_BatchRaises)
    /\ UNCHANGED texts
    /\ UNCHANGED <<prVars, mdVars, plVars, nrVars, rrVars, insVars>>

\* TextTranslator.translate(text), text = texts[1]
Translate ==
    /\ tt_pc = "start"
    /\ Len(texts) = 1
    /\ tt_op' = "translate"
    /\ \/ /\ should_skip(texts[1])
          /\ results' = <<texts[1]>>
          /\ requests' = <<>>
          /\ tt_pc' = "returned"
          /\ UNCHANGED singleReplies
       \/ \* GoogleTranslator(...) raises, outside the try
          /\ ~should_skip(texts[1])
          /\ tt_pc' = "raised"
          /\ UNCHANGED <<results, requests, singleReplies>>
       \/ /\ ~should_skip(texts[1])
          /\ \E outcome \in SingleOutcomes :
              /\ singleReplies' = <<outcome>>
              /\ results' = <<IF outcome = "ok" THEN Tr(texts[1]) ELSE texts[1]>>
          /\ requests' = <<[kind |-> "translate", arg |-> texts[1]]>>
          /\ tt_pc' = "returned"
    /\ UNCHANGED <<texts, batchReply>>
    /\ UNCHANGED <<prVars, mdVars, plVars, nrVars, rrVars, insVars>>

----------------------------------------------------------------------------
(* Page-range parsing                                                      *)

\* Bounds of the page-range inputs
MaxPages == 2
MaxParts == 2

DigitSeq == <<"0", "1", "2", "3", "4", "5", "6", "7", "8", "9">>
DigitVal(c) == (CHOOSE i \in 1..Len(DigitSeq) : DigitSeq[i] = c) - 1

RECURSIVE ToStr(_)
\* decimal rendering of a natural number (how the user writes a page number)
ToStr(k) == IF k < Len(DigitSeq) THEN <<DigitSeq[k + 1]>>
            ELSE ToStr(k \div Len(DigitSeq)) \o <<DigitSeq[(k % Len(DigitSeq)) + 1]>>

RECURSIVE DigitsValue(_)
\* value of a non-empty digit string
DigitsValue(s) ==
    IF Len(s) = 1 THEN DigitVal(s[1])
    ELSE DigitsValue(SubSeq(s, 1, Len(s) - 1)) * Len(DigitSeq) + DigitVal(s[Len(s)])

\* Python int(s): surrounding whitespace is ignored, an optional sign, then
\* one or more digits; anything else is a ValueError (ok = FALSE).
ParseInt(s) ==
    LET t == Strip(s)
        signed == t # <<>> /\ t[1] \in {"+", "-"}
        body == IF signed THEN Tail(t) ELSE t
    IN  IF IsDigit(body)
        THEN [ok |-> TRUE,
              val |-> IF signed /\ t[1] = "-" THEN 0 - DigitsValue(body) ELSE DigitsValue(body)]
        ELSE [ok |-> FALSE, val |-> 0]

LowerChar(c) == CASE c = "A" -> "a" [] c = "L" -> "l" [] c = "B" -> "b" [] OTHER -> c
\* str.lower()
Lower(s) == [i \in 1..Len(s) |-> LowerChar(s[i])]

NotSpace(c) == c # " "
\* str.replace(" ", "")
RemoveSpaces(s) == SelectSeq(s, NotSpace)

RECURSIVE FirstIndex(_, _, _)
\* position of the first occurrence of character c in s at or after i, 0 if none
FirstIndex(s, c, i) ==
    IF i > Len(s) THEN 0
    ELSE IF s[i] = c THEN i ELSE FirstIndex(s, c, i + 1)

RECURSIVE Split(_, _)
\* str.split(c): always at least one piece
Split(s, c) ==
    LET k == FirstIndex(s, c, 1)
    IN  IF k = 0 THEN <<s>>
        ELSE <<SubSeq(s, 1, k - 1)>> \o Split(SubSeq(s, k + 1, Len(s)), c)

\* str.split(c, 1): at most two pieces
SplitOnce(s, c) ==
    LET k == FirstIndex(s, c, 1)
    IN  IF k = 0 THEN <<s>>
        ELSE <<SubSeq(s, 1, k - 1), SubSeq(s, k + 1, Len(s))>>

RECURSIVE Sorted(_)
\* sorted(pages) of a finite set of integers
Sorted(S) ==
    IF S = {} THEN <<>>
    ELSE LET m == CHOOSE x \in S : \A y \in S : x <= y
         IN  <<m>> \o Sorted(S \ {m})

\* list(range(n))
RangeList(n) == [i \in 1..n |-> i - 1]

\* faulty variant of _parse_range: the endpoints are not clamped
parse_range_NoClamp(part, n) ==
    LET pieces == SplitOnce(part, "-")
        a == ParseInt(pieces[1])
        b == ParseInt(pieces[2])
    IN  IF a.ok /\ b.ok
        THEN {p - 1 : p \in a.val .. b.val}
        ELSE {}

\* utils/page_range.py _parse_range (called only for a part that contains "-")
parse_range(part, n) ==
    LET pieces == SplitOnce(part, "-")
        a == ParseInt(pieces[1])
        b == ParseInt(pieces[2])
    IN  IF a.ok /\ b.ok
        THEN {p - 1 : p \in Max(1, a.val) .. Min(n, b.val)}
        ELSE {}

\* faulty variant of _parse_single: the page number taken as 0-based
parse_single_ZeroBased(part, n) ==
    LET a == ParseInt(part)
    IN  IF a.ok /\ 0 <= a.val /\ a.val < n THEN {a.val} ELSE {}

\* utils/page_range.py _parse_single
parse_single(part, n) ==
    LET a == ParseInt(part)
    IN  IF a.ok /\ 1 <= a.val /\ a.val <= n THEN {a.val - 1} ELSE {}

HasDash(part) == FirstIndex(part, "-", 1) # 0

\* the contribution of one comma-part in parse_page_range
part_pages(part, n) ==
    IF HasDash(part) THEN parse_range(part, n) ELSE parse_single(part, n)

\* faulty variant of parse_page_range: "all" compared without lower()
parse_page_range_CaseSensitive(e, n) ==
    IF e = <<>> \/ Strip(e) = <<"a", "l", "l">>
    THEN RangeList(n)
    ELSE LET parts == Split(RemoveSpaces(e), ",")
         IN  Sorted(UNION {part_pages(parts[i], n) : i \in 1..Len(parts)})

\* utils/page_range.py parse_page_range
parse_page_range(e, n) ==
    IF e = <<>> \/ Strip(Lower(e)) = <<"a", "l", "l">>
    THEN RangeList(n)
    ELSE LET parts == Split(RemoveSpaces(e), ",")
         IN  Sorted(UNION {part_pages(parts[i], n) : i \in 1..Len(parts)})

\* core/translator.py _parse_page_range: does the part raise ValueError
\* (and so print a warning)?
translator_part_invalid(part) ==
    IF HasDash(part)
    THEN LET pieces == Split(part, "-")
         IN  \/ Len(pieces) # 2
             \/ ~ParseInt(pieces[1]).ok
             \/ ~ParseInt(pieces[2]).ok
    ELSE ~ParseInt(part).ok

\* core/translator.py _parse_page_range: the pages one comma-part adds
translator_part_pages(part, n) ==
    IF translator_part_invalid(part) THEN {}
    ELSE IF HasDash(part)
         THEN LET pieces == Split(part, "-")
              IN  {p - 1 : p \in Max(1, ParseInt(pieces[1]).val) ..
                                  Min(n, ParseInt(pieces[2]).val)}
         ELSE LET p == ParseInt(part).val
              IN  IF 1 <= p /\ p <= n THEN {p - 1} ELSE {}

\* core/translator.py PDFTranslator._parse_page_range: the returned list
translator_parse_page_range(e, n) ==
    IF e = <<>> \/ Lower(e) = <<"a", "l", "l">>
    THEN RangeList(n)
    ELSE LET parts == Split(RemoveSpaces(e), ",")
         IN  Sorted(UNION {translator_part_pages(parts[i], n) : i \in 1..Len(parts)})

\* faulty variant of _parse_page_range: no warning printed
translator_warnings_None(e) == <<>>

\* core/translator.py PDFTranslator._parse_page_range: the parts it warns about
translator_warnings(e) ==
    IF e = <<>> \/ Lower(e) = <<"a", "l", "l">>
    THEN <<>>
    ELSE SelectSeq(Split(RemoveSpaces(e), ","), translator_part_invalid)

\* The comma-parts a user may write: page numbers and ranges around the
\* document bounds, and parts that are malformed or oddly written.
PageNums == 0..(MaxPages + 1)
SingleParts == {ToStr(k) : k \in PageNums}
RangeParts == {ToStr(a) \o <<"-">> \o ToStr(b) : a, b \in PageNums}
MalformedParts ==
    { <<>>,
      <<"a", "b", "c">>,
      <<"1", "-", "2", "-", "3">>,
      <<"-", "1">>,
      <<"1", "-", "-", "2">>,
      <<"2", "-">>,
      <<" ", "2">>,
      <<"\t", "2">>,
      <<"+", "1">> }
PartPool == SingleParts \cup RangeParts \cup MalformedParts

RECURSIVE Join(_)
\* the parts written with commas between them
Join(ps) == IF Len(ps) = 1 THEN ps[1] ELSE ps[1] \o <<",">> \o Join(Tail(ps))

\* "all" in every letter case, with and without surrounding blanks, the
\* empty string and a blank string
AllWords == {<<x, y, z>> : x \in {"a", "A"}, y \in {"l", "L"}, z \in {"l", "L"}}
WholeExprs ==
    AllWords \cup {<<>>, <<" ", " ">>, <<" ", "a", "l", "l">>, <<"A", "L", "L", " ">>,
                   <<"a", "l", "l", "b">>}

ExprPool ==
    WholeExprs \cup {Join(ps) : ps \in UNION {[1..k -> PartPool] : k \in 1..MaxParts}}

\* a call of utils.parse_page_range(expr, total_pages)
ParsePageRange ==
    /\ pr_pc = "start"
    /\ pr_fn' = "utils"
    /\ pages' = parse_page_range(expr, total_pages)
    /\ warnings' = <<>>
    /\ pr_pc' = "returned"
    /\ UNCHANGED <<expr, total_pages>>
    /\ UNCHANGED <<ttVars, mdVars, plVars, nrVars, rrVars, insVars>>

\* a call of PDFTranslator._parse_page_range(expr, total_pages)
TranslatorParsePageRange ==
    /\ pr_pc = "start"
    /\ pr_fn' = "translator"
    /\ pages' = translator_parse_page_range(expr, total_pages)
    /\ warnings' = translator_warnings(expr)
    /\ pr_pc' = "returned"
    /\ UNCHANGED <<expr, total_pages>>
    /\ UNCHANGED <<ttVars, mdVars, plVars, nrVars, rrVars, insVars>>

----------------------------------------------------------------------------
(* PDFExtractor: digital/scanned detection                                 *)

\* Bound of the documents
MaxDocPages == 6

\* PDFExtractor.MIN_TEXT_DENSITY
MIN_TEXT_DENSITY == 50
\* default of is_digital_pdf's sample_pages parameter
SAMPLE_PAGES == 3

\* The plain text of a page, run-length encoded: `lead` whitespace
\* characters, then `body` characters of which the first and the last are not
\* whitespace, then `trail` whitespace characters.
PageTexts ==
    {[lead |-> w, body |-> b, trail |-> w] :
        w \in {0, 1}, b \in {0, MIN_TEXT_DENSITY - 1, MIN_TEXT_DENSITY}}

\* len(text)
RawLen(t) == t.lead + t.body + t.trail
\* len(text.strip())
StrippedLen(t) == t.body

page_count == Len(doc)

\* PDFExtractor.has_text_on_page
has_text_on_page(page_num) ==
    IF page_num < 0 \/ page_num >= page_count THEN FALSE
    ELSE StrippedLen(doc[page_num + 1]) >= MIN_TEXT_DENSITY

\* is_digital_pdf: the list `indices`
sample_indices(sample_pages) ==
    LET pages_to_check == Min(sample_pages, page_count)
        step == Max(1, page_count \div pages_to_check)
    IN  [i \in 1..pages_to_check |-> (i - 1) * step]

\* faulty variant of is_digital_pdf: half of the sampled pages suffices
is_digital_pdf_HalfCounts(sample_pages) ==
    IF page_count = 0 THEN FALSE
    ELSE LET pages_to_check == Min(sample_pages, page_count)
             indices == sample_indices(sample_pages)
             pages_with_text ==
                 Cardinality({j \in 1..Len(indices) : has_text_on_page(indices[j])})
         IN  pages_with_text >= pages_to_check \div 2

\* PDFExtractor.is_digital_pdf
is_digital_pdf(sample_pages) ==
    IF page_count = 0 THEN FALSE
    ELSE LET pages_to_check == Min(sample_pages, page_count)
             indices == sample_indices(sample_pages)
             pages_with_text ==
                 Cardinality({j \in 1..Len(indices) : has_text_on_page(indices[j])})
         IN  pages_with_text > pages_to_check \div 2

\* a call of extractor.is_digital_pdf() on the open document
IsDigitalPdf ==
    /\ md_pc = "start"
    /\ is_digital' = is_digital_pdf(SAMPLE_PAGES)
    /\ sampled' = IF page_count = 0 THEN <<>> ELSE sample_indices(SAMPLE_PAGES)
    /\ md_pc' = "returned"
    /\ UNCHANGED doc
    /\ UNCHANGED <<ttVars, prVars, plVars, nrVars, rrVars, insVars>>

----------------------------------------------------------------------------
(* PDFTranslator.translate: mode decision and the two pipelines            *)

\* Bound of config.num_workers
MaxWorkers == 2

HandleNames == {"detector", "extractor", "renderer"}
NoHandles == [h \in HandleNames |-> "unopened"]
NoOutput == [writes |-> 0, pages |-> <<>>]
NoPage == [page |-> 0 - 1, regions |-> 0, rendered |-> FALSE]

\* `if self._doc:` of PDFExtractor.close and PDFRenderer.close: the handle is
\* an object with __len__ (page_count is len(self._doc)), so it is true
\* exactly when the document has at least one page
doc_truthy == Len(doc) > 0

\* PDFExtractor.close / PDFRenderer.close on an open handle
close(h, name) == IF doc_truthy THEN [h EXCEPT ![name] = "closed"] ELSE h

\* faulty variant of _report: the callback is never called
report_Never(calls, stage, current, total) == calls

\* PDFTranslator._report: the callback's calls after this one, given the calls so far
report(calls, stage, current, total) ==
    IF has_callback THEN Append(calls, <<stage, current, total>>) ELSE calls

\* the exception leaves translate
Raise(e) == pl_pc' = "raised" /\ pl_error' = e

\* extract_text_blocks of a page: only spans with non-blank text become blocks
blocks_of(page_num) == IF StrippedLen(doc[page_num + 1]) > 0 THEN 1 ELSE 0

\* _process_single_page / render_translations: the processed page made of one
\* image and one region list
process_single_page(image, regions) ==
    [page |-> image, regions |-> regions.n, rendered |-> regions.n > 0]

\* translate, up to the input check
Translate_Check ==
    /\ pl_pc = "start"
    /\ stage_log' = Append(stage_log, "check")
    /\ IF file_exists
       THEN pl_pc' = "determine" /\ UNCHANGED pl_error
       ELSE Raise("FileNotFoundError")
    /\ UNCHANGED <<cfg_mode, file_exists, has_callback, num_workers, mode,
                   mode_decisions, handles, callbacks, page_indices, all_regions,
                   tasks, finish_order, processed, all_blocks, replaced, output>>
    /\ UNCHANGED <<ttVars, prVars, mdVars, nrVars, rrVars, insVars>>

\* _determine_mode
DetermineMode ==
    /\ pl_pc = "determine"
    /\ stage_log' = Append(stage_log, "determine_mode")
    /\ mode_decisions' = mode_decisions + 1
    /\ \/ \* self.config.mode: the configuration has no such attribute
          /\ cfg_mode = "missing"
          /\ Raise("AttributeError")
          /\ UNCHANGED <<mode, handles>>
       \/ /\ cfg_mode \in {"ocr", "digital"}
          /\ mode' = cfg_mode
          /\ pl_pc' = "dispatch"
          /\ UNCHANGED <<pl_error, handles>>
       \/ \* auto-detection; fitz.open raises
          /\ cfg_mode = "auto"
          /\ Raise("Exception")
          /\ UNCHANGED <<mode, handles>>
       \/ \* auto-detection; reading a sampled page raises inside the with block
          /\ cfg_mode = "auto"
          /\ Len(doc) > 0
          /\ handles' = close([handles EXCEPT !["detector"] = "open"], "detector")
          /\ Raise("Exception")
          /\ UNCHANGED mode
       \/ /\ cfg_mode = "auto"
          /\ handles' = close([handles EXCEPT !["detector"] = "open"], "detector")
          /\ mode' = IF is_digital_pdf(SAMPLE_PAGES) THEN "digital" ELSE "ocr"
          /\ pl_pc' = "dispatch"
          /\ UNCHANGED pl_error
    /\ UNCHANGED <<cfg_mode, file_exists, has_callback, num_workers, callbacks,
                   page_indices, all_regions, tasks, finish_order, processed,
                   all_blocks, replaced, output>>
    /\ UNCHANGED <<ttVars, prVars, mdVars, nrVars, rrVars, insVars>>

\* translate: the dispatch on the decided mode
Dispatch ==
    /\ pl_pc = "dispatch"
    /\ pl_pc' = IF mode = "digital" THEN "dig_open" ELSE "ocr_load"
    /\ UNCHANGED <<cfg_mode, file_exists, has_callback, num_workers, pl_error, mode,
                   mode_decisions, handles, callbacks, stage_log, page_indices,
                   all_regions, tasks, finish_order, processed, all_blocks,
                   replaced, output>>
    /\ UNCHANGED <<ttVars, prVars, mdVars, nrVars, rrVars, insVars>>

\* _translate_ocr, step 1: report and _load_pdf
Ocr_LoadPdf ==
    /\ pl_pc = "ocr_load"
    /\ stage_log' = Append(stage_log, "ocr_load")
    /\ callbacks' = report(callbacks, "Converting PDF", 0, 4)
    /\ \/ \* convert_from_path raises
          /\ Raise("Exception")
          /\ UNCHANGED page_indices
       \/ /\ translator_parse_page_range(expr, Len(doc)) = <<>>
          /\ Raise("ValueError")
          /\ UNCHANGED page_indices
       \/ /\ translator_parse_page_range(expr, Len(doc)) # <<>>
          /\ page_indices' = translator_parse_page_range(expr, Len(doc))
          /\ pl_pc' = "ocr_run"
          /\ UNCHANGED pl_error
    /\ UNCHANGED <<cfg_mode, file_exists, has_callback, num_workers, mode,
                   mode_decisions, handles, all_regions, tasks, finish_order,
                   processed, all_blocks, replaced, output>>
    /\ UNCHANGED <<ttVars, prVars, mdVars, nrVars, rrVars, insVars>>

\* _translate_ocr, step 2: report and _run_ocr; the images are the selected
\* pages, and OCR finds no region or some regions on each
Ocr_RunOcr ==
    /\ pl_pc = "ocr_run"
    /\ stage_log' = Append(stage_log, "ocr_run")
    /\ callbacks' = report(callbacks, "Running OCR", 1, 4)
    /\ \/ /\ Raise("Exception")
          /\ UNCHANGED all_regions
       \/ /\ \E found \in [1..Len(page_indices) -> {0, 1}] :
                all_regions' = [j \in 1..Len(page_indices) |->
                                   [of |-> page_indices[j], n |-> found[j]]]
          /\ pl_pc' = "ocr_process"
          /\ UNCHANGED pl_error
    /\ UNCHANGED <<cfg_mode, file_exists, has_callback, num_workers, mode,
                   mode_decisions, handles, page_indices, tasks, finish_order,
                   processed, all_blocks, replaced, output>>
    /\ UNCHANGED <<ttVars, prVars, mdVars, nrVars, rrVars, insVars>>

\* _translate_ocr, step 3: report, and _process_pages up to executor.map,
\* which queues one task per element of zip(images, all_regions)
Ocr_Submit ==
    /\ pl_pc = "ocr_process"
    /\ stage_log' = Append(stage_log, "ocr_process")
    /\ callbacks' = report(callbacks, "Translating", 2, 4)
    /\ tasks' = [j \in 1..Min(Len(page_indices), Len(all_regions)) |->
                    [pc |-> "queued", args |-> <<page_indices[j], all_regions[j]>>,
                     image |-> 0 - 1, regions |-> [of |-> 0 - 1, n |-> 0],
                     out |-> NoPage]]
    /\ finish_order' = <<>>
    /\ pl_pc' = "ocr_workers"
    /\ UNCHANGED <<cfg_mode, file_exists, has_callback, num_workers, pl_error, mode,
                   mode_decisions, handles, page_indices, all_regions, processed,
                   all_blocks, replaced, output>>
    /\ UNCHANGED <<ttVars, prVars, mdVars, nrVars, rrVars, insVars>>

Running == {j \in 1..Len(tasks) : tasks[j].pc = "running"}

\* a pool thread takes the next queued task: _process_single_page unpacks its
\* argument into its locals
Worker_Start(j) ==
    /\ pl_pc = "ocr_workers"
    /\ tasks[j].pc = "queued"
    /\ \A i \in 1..(j - 1) : tasks[i].pc # "queued"
    /\ Cardinality(Running) < num_workers
    /\ tasks' = [tasks EXCEPT ![j].pc = "running",
                              ![j].image = tasks[j].args[1],
                              ![j].regions = tasks[j].args[2]]
    /\ UNCHANGED <<cfg_mode, file_exists, has_callback, num_workers, pl_pc, pl_error,
                   mode, mode_decisions, handles, callbacks, stage_log,
                   page_indices, all_regions, finish_order, processed, all_blocks,
                   replaced, output>>
    /\ UNCHANGED <<ttVars, prVars, mdVars, nrVars, rrVars, insVars>>

\* _process_single_page returns its page, or translate_batch or
\* render_translations raises in it
Worker_Finish(j) ==
    /\ pl_pc = "ocr_workers"
    /\ tasks[j].pc = "running"
    /\ \/ tasks' = [tasks EXCEPT ![j].pc = "done",
                       ![j].out = process_single_page(tasks[j].image, tasks[j].regions)]
       \/ /\ tasks[j].regions.n > 0
          /\ tasks' = [tasks EXCEPT ![j].pc = "failed"]
    /\ finish_order' = Append(finish_order, j)
    /\ UNCHANGED <<cfg_mode, file_exists, has_callback, num_workers, pl_pc, pl_error,
                   mode, mode_decisions, handles, callbacks, stage_log,
                   page_indices, all_regions, processed, all_blocks, replaced,
                   output>>
    /\ UNCHANGED <<ttVars, prVars, mdVars, nrVars, rrVars, insVars>>

\* faulty variant of the collection: results in the order the workers finished
map_results_AsCompleted(ts, order) == [k \in 1..Len(order) |-> ts[order[k]].out]

\* list(executor.map(...)): the results in the order of the arguments
map_results(ts, order) == [j \in 1..Len(ts) |-> ts[j].out]

\* faulty variant of all_done: a failed task counts as a result
all_done_IgnoreFailed(ts) == \A j \in 1..Len(ts) : ts[j].pc \in {"done", "failed"}

\* every result of executor.map could be read: no task raised
all_done(ts) == \A j \in 1..Len(ts) : ts[j].pc = "done"

\* _process_pages: list(executor.map(...)) and the exit of the with block.
\* The results are read in argument order, so the first failed task's
\* exception is raised once the tasks before it are done; the pool's shutdown
\* waits for the running tasks.
Ocr_Collect ==
    /\ pl_pc = "ocr_workers"
    /\ Running = {}
    /\ \/ /\ all_done(tasks)
          /\ processed' = map_results(tasks, finish_order)
          /\ pl_pc' = "ocr_save"
          /\ UNCHANGED pl_error
       \/ /\ \E j \in 1..Len(tasks) :
                /\ tasks[j].pc = "failed"
                /\ \A i \in 1..(j - 1) : tasks[i].pc = "done"
          /\ Raise("Exception")
          /\ UNCHANGED processed
    /\ UNCHANGED <<cfg_mode, file_exists, has_callback, num_workers, mode,
                   mode_decisions, handles, callbacks, stage_log, page_indices,
                   all_regions, tasks, finish_order, all_blocks, replaced, output>>
    /\ UNCHANGED <<ttVars, prVars, mdVars, nrVars, rrVars, insVars>>

\* _translate_ocr, step 4: report, _save_pdf, report "Done", return
Ocr_Save ==
    /\ pl_pc = "ocr_save"
    /\ stage_log' = Append(stage_log, "ocr_save")
    /\ \/ \* the save raises
          /\ callbacks' = report(callbacks, "Saving PDF", 3, 4)
          /\ Raise("Exception")
          /\ UNCHANGED output
       \/ /\ output' = [writes |-> output.writes + 1, pages |-> processed]
          /\ callbacks' = report(report(callbacks, "Saving PDF", 3, 4), "Done", 4, 4)
          /\ pl_pc' = "returned"
          /\ UNCHANGED pl_error
    /\ UNCHANGED <<cfg_mode, file_exists, has_callback, num_workers, mode,
                   mode_decisions, handles, page_indices, all_regions, tasks,
                   finish_order, processed, all_blocks, replaced>>
    /\ UNCHANGED <<ttVars, prVars, mdVars, nrVars, rrVars, insVars>>

\* the finally clause of _translate_digital, then the exit of its with block
close_both(h) == close(close(h, "renderer"), "extractor")

\* _translate_digital up to the try: open the extractor, select the pages,
\* open the renderer
Dig_Open ==
    /\ pl_pc = "dig_open"
    /\ stage_log' = Append(stage_log, "dig_open")
    /\ \/ \* PDFExtractor(input_path) raises
          /\ Raise("Exception")
          /\ UNCHANGED <<handles, page_indices>>
       \/ /\ translator_parse_page_range(expr, Len(doc)) = <<>>
          /\ handles' = close([handles EXCEPT !["extractor"] = "open"], "extractor")
          /\ Raise("ValueError")
          /\ UNCHANGED page_indices
       \/ \* PDFRenderer.open raises
          /\ translator_parse_page_range(expr, Len(doc)) # <<>>
          /\ page_indices' = translator_parse_page_range(expr, Len(doc))
          /\ handles' = close([handles EXCEPT !["extractor"] = "open"], "extractor")
          /\ Raise("Exception")
       \/ /\ translator_parse_page_range(expr, Len(doc)) # <<>>
          /\ page_indices' = translator_parse_page_range(expr, Len(doc))
          /\ handles' = [handles EXCEPT !["extractor"] = "open", !["renderer"] = "open"]
          /\ pl_pc' = "dig_extract"
          /\ UNCHANGED pl_error
    /\ UNCHANGED <<cfg_mode, file_exists, has_callback, num_workers, mode,
                   mode_decisions, callbacks, all_regions, tasks, finish_order,
                   processed, all_blocks, replaced, output>>
    /\ UNCHANGED <<ttVars, prVars, mdVars, nrVars, rrVars, insVars>>

\* _translate_digital, step 1: report and the extraction loop
Dig_Extract ==
    /\ pl_pc = "dig_extract"
    /\ stage_log' = Append(stage_log, "dig_extract")
    /\ callbacks' = report(callbacks, "Extracting text", 0, 3)
    /\ \/ /\ handles' = close_both(handles)
          /\ Raise("Exception")
          /\ UNCHANGED all_blocks
       \/ /\ all_blocks' = [j \in 1..Len(page_indices) |->
                               [page |-> page_indices[j], n |-> blocks_of(page_indices[j])]]
          /\ pl_pc' = "dig_translate"
          /\ UNCHANGED <<pl_error, handles>>
    /\ UNCHANGED <<cfg_mode, file_exists, has_callback, num_workers, mode,
                   mode_decisions, page_indices, all_regions, tasks, finish_order,
                   processed, replaced, output>>
    /\ UNCHANGED <<ttVars, prVars, mdVars, nrVars, rrVars, insVars>>

\* faulty variant of pages_with_blocks: every page of the document that has blocks
pages_with_blocks_WholeDoc(from, to) ==
    IF to < from THEN {} ELSE {p \in 0..(Len(doc) - 1) : blocks_of(p) > 0}

\* the pages of all_blocks[from..to] that have blocks
pages_with_blocks(from, to) ==
    {all_blocks[j].page : j \in {i \in from..to : all_blocks[i].n > 0}}

\* _translate_digital, step 2: report and the translate-and-replace loop;
\* translate_batch or replace_text_on_page may raise on any page with blocks
Dig_Translate ==
    /\ pl_pc = "dig_translate"
    /\ stage_log' = Append(stage_log, "dig_translate")
    /\ callbacks' = report(callbacks, "Translating", 1, 3)
    /\ \/ \E fail_at \in 1..Len(all_blocks) :
            /\ all_blocks[fail_at].n > 0
            /\ replaced' = pages_with_blocks(1, fail_at - 1)
            /\ handles' = close_both(handles)
            /\ Raise("Exception")
       \/ /\ replaced' = pages_with_blocks(1, Len(all_blocks))
          /\ pl_pc' = "dig_save"
          /\ UNCHANGED <<pl_error, handles>>
    /\ UNCHANGED <<cfg_mode, file_exists, has_callback, num_workers, mode,
                   mode_decisions, page_indices, all_regions, tasks, finish_order,
                   processed, all_blocks, output>>
    /\ UNCHANGED <<ttVars, prVars, mdVars, nrVars, rrVars, insVars>>

\* _translate_digital, step 3: report, save, report "Done", return through the
\* finally clause and the with block
Dig_Save ==
    /\ pl_pc = "dig_save"
    /\ stage_log' = Append(stage_log, "dig_save")
    /\ handles' = close_both(handles)
    /\ \/ /\ callbacks' = report(callbacks, "Saving PDF", 2, 3)
          /\ Raise("Exception")
          /\ UNCHANGED output
       \/ /\ output' = [writes |-> output.writes + 1,
                        pages |-> [p \in 1..Len(doc) |->
                                      [page |-> p - 1, regions |-> blocks_of(p - 1),
                                       rendered |-> (p - 1) \in replaced]]]
          /\ callbacks' = report(report(callbacks, "Saving PDF", 2, 3), "Done", 3, 3)
          /\ pl_pc' = "returned"
          /\ UNCHANGED pl_error
    /\ UNCHANGED <<cfg_mode, file_exists, has_callback, num_workers, mode,
                   mode_decisions, page_indices, all_regions, tasks, finish_order,
                   processed, all_blocks, replaced>>
    /\ UNCHANGED <<ttVars, prVars, mdVars, nrVars, rrVars, insVars>>

\* The documents and page-range arguments handed to translate
PipelinePages == {[lead |-> 0, body |-> b, trail |-> 0] : b \in {0, MIN_TEXT_DENSITY}}
PipelineExprs ==
    { <<"a", "l", "l">>, ToStr(1), ToStr(MaxPages), ToStr(MaxPages + 1),
      ToStr(1) \o <<"-">> \o ToStr(MaxPages), ToStr(MaxPages) \o <<",">> \o ToStr(1) }

----------------------------------------------------------------------------
(* PDFRenderer: in-place text replacement of the native pipeline           *)

\* Bounds of the native renderer's inputs
MaxBlocks == 2
MaxCalls == 2

\* A font size is a rational number n/d (d > 0)
Rat(n, d) == [n |-> n, d |-> d]
RatLeq(a, b) == a.n * b.d <= b.n * a.d
RatMin(a, b) == IF RatLeq(a, b) THEN a ELSE b
RatMax(a, b) == IF RatLeq(a, b) THEN b ELSE a

\* the lower clamp of the font size
MIN_FONT_SIZE == 6

\* TextBlock: len(block.text), block.font_size, and whether fitz.Rect(block.bbox)
\* is neither empty nor infinite
BlockPool ==
    { [len |-> 2, font_size |-> Rat(12, 1), rect_ok |-> TRUE],
      [len |-> 2, font_size |-> Rat(MIN_FONT_SIZE, 1), rect_ok |-> TRUE],
      [len |-> 2, font_size |-> Rat(4, 1), rect_ok |-> TRUE],
      [len |-> 0, font_size |-> Rat(12, 1), rect_ok |-> TRUE],
      [len |-> 2, font_size |-> Rat(12, 1), rect_ok |-> FALSE] }

\* a translation: its length, and whether it consists of whitespace only
TranslationPool ==
    { [len |-> 0, blank |-> TRUE],
      [len |-> 1, blank |-> TRUE],
      [len |-> 3, blank |-> FALSE],
      [len |-> 40, blank |-> FALSE] }

\* faulty variant of font_size: no lower clamp
font_size_NoFloor(block, translation) ==
    LET size_ratio_d == Max(translation.len, 1)
        fitted == Rat(block.font_size.n * block.len * 6, block.font_size.d * size_ratio_d * 5)
    IN  RatMin(RatMin(block.font_size, fitted), block.font_size)

\* replace_text_on_page: the font size of a replacement.  size_ratio is
\* len(block.text) / max(len(translation), 1), and 1.2 is 6/5.
font_size(block, translation) ==
    LET size_ratio_d == Max(translation.len, 1)
        fitted == Rat(block.font_size.n * block.len * 6, block.font_size.d * size_ratio_d * 5)
    IN  RatMax(Rat(MIN_FONT_SIZE, 1), RatMin(RatMin(block.font_size, fitted), block.font_size))

\* `if not self._doc`: no handle, or a handle whose length (page count) is 0
no_document == nr_doc # "pages"

\* faulty variant of is_replaced: the rectangle is not looked at
is_replaced_IgnoreRect(block, translation) ==
    /\ translation.len > 0
    /\ ~translation.blank

\* replace_text_on_page: is the pair (block, translation) replaced?
is_replaced(block, translation) ==
    /\ translation.len > 0
    /\ ~translation.blank
    /\ block.rect_ok

PageOp(op, i, size) == [op |-> op, block |-> i, size |-> size]
NoSize == Rat(0, 1)

\* faulty variant of replacements: the pairs are taken last to first
replacements_Reversed(bs, ts) ==
    LET n == Min(Len(bs), Len(ts))
    IN  SelectSeq([i \in 1..n |-> n + 1 - i], LAMBDA i : is_replaced(bs[i], ts[i]))

\* replace_text_on_page: the list `replacements`, as positions of zip(blocks, translations)
replacements(bs, ts) ==
    SelectSeq([i \in 1..Min(Len(bs), Len(ts)) |-> i],
              LAMBDA i : is_replaced(bs[i], ts[i]))

\* faulty variant of replace_ops: the redaction marks of the pairs that exist
\* are added before the lengths are compared
replace_ops_MarkFirst(bs, ts) ==
    LET r == replacements(bs, ts)
    IN  [k \in 1..Len(r) |-> PageOp("add_redact_annot", r[k], NoSize)]
        \o (IF Len(bs) # Len(ts) THEN <<>>
            ELSE <<PageOp("apply_redactions", 0, NoSize)>>
                 \o [k \in 1..Len(r) |-> PageOp("insert_text", r[k], font_size(bs[r[k]], ts[r[k]]))])

\* replace_text_on_page: the page operations of one call, in order
replace_ops(bs, ts) ==
    IF Len(bs) # Len(ts) THEN <<>>
    ELSE LET r == replacements(bs, ts)
         IN  [k \in 1..Len(r) |-> PageOp("add_redact_annot", r[k], NoSize)]
             \o <<PageOp("apply_redactions", 0, NoSize)>>
             \o [k \in 1..Len(r) |-> PageOp("insert_text", r[k], font_size(bs[r[k]], ts[r[k]]))]

\* the exceptions of save and replace_text_on_page
NoDocumentOpen == "RuntimeError: No document open"
LengthMismatch == "ValueError: Number of blocks and translations must match"

\* PDFRenderer.open
Renderer_Open ==
    /\ nr_pc = "ready"
    /\ nr_doc = "none"
    /\ nr_doc' \in {"pages", "empty"}
    /\ nr_op' = "open"
    /\ nr_error' = "none"
    /\ UNCHANGED <<nr_blocks, nr_translations, nr_pc, nr_passed, nr_calls, page_ops, nr_saves>>
    /\ UNCHANGED <<ttVars, prVars, mdVars, plVars, rrVars, insVars>>

\* PDFRenderer.close
Renderer_Close ==
    /\ nr_pc = "ready"
    /\ nr_doc' = IF no_document THEN nr_doc ELSE "none"
    /\ nr_op' = "close"
    /\ nr_error' = "none"
    /\ UNCHANGED <<nr_blocks, nr_translations, nr_pc, nr_passed, nr_calls, page_ops, nr_saves>>
    /\ UNCHANGED <<ttVars, prVars, mdVars, plVars, rrVars, insVars>>

\* PDFRenderer.replace_text_on_page(page_num, blocks[:k], translations)
ReplaceTextOnPage(k) ==
    /\ nr_pc = "ready"
    /\ nr_calls < MaxCalls
    /\ nr_calls' = nr_calls + 1
    /\ nr_op' = "replace"
    /\ nr_passed' = k
    /\ nr_error' = IF no_document THEN NoDocumentOpen
                   ELSE IF k # Len(nr_translations) THEN LengthMismatch
                   ELSE "none"
    /\ page_ops' = IF no_document THEN page_ops
                   ELSE page_ops \o replace_ops(SubSeq(nr_blocks, 1, k), nr_translations)
    /\ UNCHANGED <<nr_doc, nr_blocks, nr_translations, nr_pc, nr_saves>>
    /\ UNCHANGED <<ttVars, prVars, mdVars, plVars, rrVars, insVars>>

\* PDFRenderer.save(output_path)
Renderer_Save ==
    /\ nr_pc = "ready"
    /\ nr_calls < MaxCalls
    /\ nr_calls' = nr_calls + 1
    /\ nr_op' = "save"
    /\ nr_error' = IF no_document THEN NoDocumentOpen ELSE "none"
    /\ nr_saves' = IF no_document THEN nr_saves ELSE nr_saves + 1
    /\ UNCHANGED <<nr_doc, nr_blocks, nr_translations, nr_pc, nr_passed, page_ops>>
    /\ UNCHANGED <<ttVars, prVars, mdVars, plVars, rrVars, insVars>>

----------------------------------------------------------------------------
(* TextRenderer: erase and redraw on the page image (raster pipeline)      *)

\* Bound of the region list
MaxRegions == 2

\* image.shape[1] and image.shape[0] of the page image
ImageWidth == 100
ImageHeight == 100

White == <<255, 255, 255>>
Black == <<0, 0, 0>>

\* The colours (R, G, B) with 0.299*R + 0.587*G + 0.114*B = 128 exactly whose
\* luminance, evaluated as the source does (binary64 products summed left to
\* right), is 127.99999999999999.  For every other 8-bit colour the binary64
\* value is below 128 exactly when the exact value is.
RoundedBelow128 ==
    { <<8, 200, 72>>, <<12, 190, 113>>, <<19, 201, 38>>, <<23, 191, 79>>,
      <<24, 160, 236>>, <<34, 192, 45>>, <<38, 182, 86>>, <<42, 172, 127>>,
      <<49, 183, 52>>, <<53, 173, 93>>, <<57, 163, 134>>, <<64, 174, 59>>,
      <<72, 154, 141>>, <<75, 175, 25>>, <<79, 165, 66>>, <<87, 145, 148>>,
      <<90, 166, 32>>, <<94, 156, 73>>, <<98, 146, 114>>, <<102, 136, 155>>,
      <<105, 157, 39>>, <<113, 137, 121>>, <<116, 158, 5>>, <<117, 127, 162>>,
      <<120, 148, 46>>, <<128, 128, 128>>, <<131, 149, 12>>, <<132, 118, 169>>,
      <<135, 139, 53>>, <<143, 119, 135>>, <<146, 140, 19>>, <<154, 120, 101>>,
      <<158, 110, 142>>, <<161, 131, 26>>, <<169, 111, 108>>, <<176, 122, 33>>,
      <<177, 91, 190>>, <<184, 102, 115>>, <<195, 103, 81>>, <<199, 93, 122>>,
      <<202, 114, 6>>, <<210, 94, 88>>, <<225, 85, 95>>, <<240, 76, 102>>,
      <<251, 77, 68>>, <<255, 67, 109>> }

\* _get_contrasting_color: `luminance < 128`
luminance_below_128(bg_color) ==
    IF Len(bg_color) >= 3
    THEN \/ 299 * bg_color[1] + 587 * bg_color[2] + 114 * bg_color[3] < 128 * 1000
         \/ <<bg_color[1], bg_color[2], bg_color[3]>> \in RoundedBelow128
    ELSE bg_color[1] < 128

\* TextRenderer._get_contrasting_color
get_contrasting_color(bg_color) == IF luminance_below_128(bg_color) THEN White ELSE Black

\* faulty variant of padded: pads by 3
padded_Wide(box) == << Max(0, box[1] - 3), Max(0, box[2] - 3),
                       Min(ImageWidth, box[3] + 3), Min(ImageHeight, box[4] + 3) >>

\* _remove_text / _sample_background: the box padded by 2 and clipped to the image
padded(box) == << Max(0, box[1] - 2), Max(0, box[2] - 2),
                  Min(ImageWidth, box[3] + 2), Min(ImageHeight, box[4] + 2) >>

\* _sample_background: is any pixel sampled?  A row above or below is sampled
\* when there is room and the padded box has columns, a column left or right
\* when there is room and the padded box has rows.
has_samples(box) ==
    LET p == padded(box)
    IN  \/ (p[2] > 3 \/ p[4] < ImageHeight - 3) /\ p[1] < p[3]
        \/ (p[1] > 3 \/ p[3] < ImageWidth - 3) /\ p[2] < p[4]

\* _sample_background: the median of the samples (the region's `around`
\* colour), white when nothing could be sampled
sample_background(region) ==
    IF has_samples(region.box) THEN region.around ELSE White

\* _draw_text: font_size = max(8, min(int(height * 0.75), 48))
initial_font_size(height) == Max(8, Min((3 * height) \div 4, 48))

\* _measure_text: the width of a text of `len` characters at a font size.  A
\* TrueType font scales with the size; ImageFont.load_default() is one fixed
\* size; when textbbox raises the width is len(text) * 10.
measure_text(font, len, size) ==
    CASE font = "truetype" -> (len * size) \div 2
      [] font = "default" -> len * 6
      [] OTHER -> len * 10

\* faulty variant of too_wide: the whole box width is allowed
too_wide_Full(text_width, width) == text_width > width

\* `text_width > width * 0.95`
too_wide(text_width, width) == 100 * text_width > 95 * width

RECURSIVE fit_font_size_NoFloor(_, _, _, _)
\* faulty variant of fit_font_size: shrinks as long as the text is too wide
fit_font_size_NoFloor(font, len, width, size) ==
    IF too_wide(measure_text(font, len, size), width) /\ size > 1
    THEN fit_font_size_NoFloor(font, len, width, size - 1)
    ELSE size

RECURSIVE fit_font_size(_, _, _, _)
\* _draw_text: the shrink loop
fit_font_size(font, len, width, size) ==
    IF too_wide(measure_text(font, len, size), width) /\ size > 6
    THEN fit_font_size(font, len, width, size - 1)
    ELSE size

DrawOp(op, i, rect, color, size, width) ==
    [op |-> op, region |-> i, rect |-> rect, color |-> color, size |-> size, width |-> width]

\* _remove_text: one fill of the padded box per region, in list order
remove_text_ops(regions) ==
    [i \in 1..Len(regions) |->
        DrawOp("fill", i, padded(regions[i].box), sample_background(regions[i]), 0, 0)]

\* _remove_text: the returned text colours
remove_text_colors(regions) ==
    [i \in 1..Len(regions) |-> get_contrasting_color(sample_background(regions[i]))]

\* _draw_text: is the text of position i drawn?
is_drawn(region, text) ==
    /\ text.len > 0
    /\ ~text.blank
    /\ region.box[3] - region.box[1] > 0
    /\ region.box[4] - region.box[2] > 0

\* _draw_text: the draw of position i
draw_text_op(font, i, region, text, color) ==
    LET width == region.box[3] - region.box[1]
        height == region.box[4] - region.box[2]
        size == fit_font_size(font, text.len, width, initial_font_size(height))
    IN  DrawOp("text", i, region.box, color, size, measure_text(font, text.len, size))

\* _draw_text: one draw per drawn position of zip(regions, translations,
\* text_colors), in list order
draw_text_ops(font, regions, translations, colors) ==
    LET n == Min(Min(Len(regions), Len(translations)), Len(colors))
        drawn == SelectSeq([i \in 1..n |-> i],
                           LAMBDA i : is_drawn(regions[i], translations[i]))
    IN  [k \in 1..Len(drawn) |->
            draw_text_op(font, drawn[k], regions[drawn[k]], translations[drawn[k]],
                         colors[drawn[k]])]

\* _measure_text: the height of a text at a font size.  A TrueType font
\* scales with the size; ImageFont.load_default() is one fixed size; when
\* textbbox raises the height is font.size.
measure_text_height(font, size) ==
    CASE font = "truetype" -> size
      [] font = "default" -> 11
      [] OTHER -> size

\* _draw_text: the pixels a drawn text may cover, left-aligned at x1 and
\* vertically centred, clipped to the image
text_rect(font, op) ==
    LET height == op.rect[4] - op.rect[2]
        text_height == measure_text_height(font, op.size)
        text_y == op.rect[2] + ((height - text_height) \div 2)
    IN  << op.rect[1], Max(0, text_y),
           Min(ImageWidth, op.rect[1] + op.width), Min(ImageHeight, text_y + text_height) >>

\* faulty variant of render_ops: each region is erased and drawn in turn
render_ops_Interleaved(font, regions, translations) ==
    LET fills == remove_text_ops(regions)
        colors == remove_text_colors(regions)
        one(i) == <<fills[i]>> \o
                  (IF i <= Len(translations) /\ is_drawn(regions[i], translations[i])
                   THEN <<draw_text_op(font, i, regions[i], translations[i], colors[i])>>
                   ELSE <<>>)
        all[i \in 0..Len(regions)] == IF i = 0 THEN <<>> ELSE all[i - 1] \o one(i)
    IN  all[Len(regions)]

\* render_translations: _remove_text over all regions, then _draw_text
render_ops(font, regions, translations) ==
    IF regions = <<>> THEN <<>>
    ELSE remove_text_ops(regions)
         \o draw_text_ops(font, regions, translations, remove_text_colors(regions))

\* TextRenderer.render_translations(image, regions, translations)
RenderTranslations ==
    /\ rr_pc = "start"
    /\ rr_op' = "render"
    /\ text_colors' = IF rr_regions = <<>> THEN <<>> ELSE remove_text_colors(rr_regions)
    /\ draw_ops' = render_ops(rr_font, rr_regions, rr_translations)
    /\ rr_pc' = "returned"
    /\ UNCHANGED <<rr_regions, rr_translations, rr_font, cc_bg, cc_color>>
    /\ UNCHANGED <<ttVars, prVars, mdVars, plVars, nrVars, insVars>>

\* Background estimates handed to _get_contrasting_color directly: black,
\* white, the greys around the threshold, two saturated colours, a colour of
\* luminance 128, and single-channel values
ColorPool ==
    { Black, White, <<127, 127, 127>>, <<128, 128, 128>>, <<255, 0, 0>>,
      <<255, 255, 0>>, <<8, 200, 72>>, <<0>>, <<100>>, <<127>>, <<128>>, <<255>> }

\* a direct call of TextRenderer._get_contrasting_color(bg_color)
GetContrastingColor ==
    /\ rr_pc = "start"
    /\ rr_op' = "contrast"
    /\ \E bg_color \in ColorPool :
          /\ cc_bg' = bg_color
          /\ cc_color' = get_contrasting_color(bg_color)
    /\ rr_pc' = "returned"
    /\ UNCHANGED <<rr_regions, rr_translations, rr_font, text_colors, draw_ops>>
    /\ UNCHANGED <<ttVars, prVars, mdVars, plVars, nrVars, insVars>>

\* Regions of the page image, each with the colour found around its box: an
\* ordinary box on white, black and mid-grey, a flat box, a tall box, a box
\* touching the ordinary one, a box of zero width, a box of negative height,
\* a box covering the whole image (nothing around it to sample), and a wide
\* box 13 high (0.75 * 13 is no integer)
RegionPool ==
    { [box |-> <<10, 10, 50, 30>>, around |-> White],
      [box |-> <<10, 10, 50, 30>>, around |-> Black],
      [box |-> <<10, 10, 50, 30>>, around |-> <<128, 128, 128>>],
      [box |-> <<10, 40, 50, 44>>, around |-> White],
      [box |-> <<60, 10, 90, 90>>, around |-> Black],
      [box |-> <<50, 10, 90, 30>>, around |-> <<8, 200, 72>>],
      [box |-> <<10, 10, 10, 30>>, around |-> Black],
      [box |-> <<10, 30, 50, 10>>, around |-> White],
      [box |-> <<0, 0, ImageWidth, ImageHeight>>, around |-> Black],
      [box |-> <<10, 50, 90, 63>>, around |-> White] }

\* a translated text: its length, and whether it is whitespace only
RasterTextPool ==
    { [len |-> 0, blank |-> TRUE], [len |-> 1, blank |-> TRUE],
      [len |-> 3, blank |-> FALSE], [len |-> 40, blank |-> FALSE] }

----------------------------------------------------------------------------
(* PDFRenderer._insert_text: the insertion loop of replace_text_on_page     *)

\* Bound of the list `replacements`
MaxInserts == 2

\* whatever page.insert_text raised
InsertTextError == "Exception raised by page.insert_text"

\* _insert_text: the font file is tried when _font_path is set and the file
\* exists, the built-in font otherwise
first_tier(font) == IF font THEN "tier1" ELSE "tier2"

\* faulty variant of on_failure: an exception of the built-in font tier leaves the call
on_failure_Propagate(tier) ==
    CASE tier = 1 -> "tier2"
      [] OTHER -> "raised"

\* _insert_text: where control goes when a tier raises.  The font-file tier
\* and the built-in tier sit in `try ... except Exception`; page.insert_text
\* sits in the handler of the second, in no try.
on_failure(tier) ==
    CASE tier = 1 -> "tier2"
      [] tier = 2 -> "tier3"
      [] OTHER -> "raised"

\* What a TextWriter tier can do: "written" (append and write_text
\* returned), "not_appended" (fitz.Font or tw.append raised), "not_written"
\* (tw.append returned and tw.write_text raised, nothing reaching the page)
TextWriterOutcomes == {"written", "not_appended", "not_written"}

\* the loop `for block, translation, font_size in replacements` takes the
\* next entry: _insert_text makes one TextWriter and picks the first tier
InsertText_Enter ==
    /\ ins_pc = "loop"
    /\ ins_index < ins_total
    /\ ins_index' = ins_index + 1
    /\ tw' = 0
    /\ ins_log' = Append(ins_log, <<>>)
    /\ written' = Append(written, 0)
    /\ ins_pc' = first_tier(font_path)
    /\ UNCHANGED <<font_path, ins_total, ins_error>>
    /\ UNCHANGED <<ttVars, prVars, mdVars, plVars, nrVars, rrVars>>

\* one tier that appends to the TextWriter `tw` and writes it to the page;
\* write_text writes every text the writer holds
TextWriterTier(tier, outcome) ==
    /\ tw' = IF outcome = "not_appended" THEN tw ELSE tw + 1
    /\ written' = IF outcome = "written"
                  THEN [written EXCEPT ![ins_index] = @ + tw']
                  ELSE written
    /\ ins_log' = [ins_log EXCEPT ![ins_index] =
                      Append(@, [tier |-> tier, ok |-> outcome = "written"])]
    /\ ins_pc' = IF outcome = "written" THEN "loop" ELSE on_failure(tier)
    /\ ins_error' = IF ins_pc' = "raised" THEN InsertTextError ELSE ins_error
    /\ UNCHANGED <<font_path, ins_total, ins_index>>
    /\ UNCHANGED <<ttVars, prVars, mdVars, plVars, nrVars, rrVars>>

\* _insert_text: fitz.Font(fontfile=...), tw.append, tw.write_text, return
InsertText_FontFile ==
    /\ ins_pc = "tier1"
    /\ \E outcome \in TextWriterOutcomes : TextWriterTier(1, outcome)

\* _insert_text: tw.append with the built-in font, tw.write_text
InsertText_Builtin ==
    /\ ins_pc = "tier2"
    /\ \E outcome \in TextWriterOutcomes : TextWriterTier(2, outcome)

\* _insert_text: page.insert_text
InsertText_Direct ==
    /\ ins_pc = "tier3"
    /\ \E ok \in BOOLEAN :
        /\ written' = IF ok THEN [written EXCEPT ![ins_index] = @ + 1] ELSE written
        /\ ins_log' = [ins_log EXCEPT ![ins_index] = Append(@, [tier |-> 3, ok |-> ok])]
        /\ ins_pc' = IF ok THEN "loop" ELSE on_failure(3)
        /\ ins_error' = IF ok THEN ins_error ELSE InsertTextError
    /\ UNCHANGED <<font_path, ins_total, ins_index, tw>>
    /\ UNCHANGED <<ttVars, prVars, mdVars, plVars, nrVars, rrVars>>

\* replace_text_on_page returns after the last insertion
Replace_Return ==
    /\ ins_pc = "loop"
    /\ ins_index = ins_total
    /\ ins_pc' = "returned"
    /\ UNCHANGED <<font_path, ins_total, ins_index, tw, ins_log, written, ins_error>>
    /\ UNCHANGED <<ttVars, prVars, mdVars, plVars, nrVars, rrVars>>

----------------------------------------------------------------------------
(* Specifications, one per component; the other components stay idle       *)

\* TextTranslator: any list of texts, no method called yet
InitTranslate ==
    /\ texts \in SeqsUpTo(TextPool, MaxTexts)
    /\ tt_op = "none"
    /\ tt_pc = "start"
    /\ results = <<>>
    /\ requests = <<>>
    /\ batchReply = [kind |-> "none", list |-> <<>>]
    /\ singleReplies = <<>>
    /\ expr = <<>>
    /\ total_pages = 0
    /\ pr_pc = "idle"
    /\ pr_fn = "none"
    /\ pages = <<>>
    /\ warnings = <<>>
    /\ doc = <<>>
    /\ md_pc = "idle"
    /\ is_digital = FALSE
    /\ sampled = <<>>
    /\ cfg_mode = "missing"
    /\ file_exists = FALSE
    /\ has_callback = FALSE
    /\ num_workers = 1
    /\ pl_pc = "idle"
    /\ pl_error = "none"
    /\ mode = "none"
    /\ mode_decisions = 0
    /\ handles = NoHandles
    /\ callbacks = <<>>
    /\ stage_log = <<>>
    /\ page_indices = <<>>
    /\ all_regions = <<>>
    /\ tasks = <<>>
    /\ finish_order = <<>>
    /\ processed = <<>>
    /\ all_blocks = <<>>
    /\ replaced = {}
    /\ output = NoOutput
    /\ nr_doc = "none"
    /\ nr_blocks = <<>>
    /\ nr_translations = <<>>
    /\ nr_pc = "idle"
    /\ nr_op = "none"
    /\ nr_error = "none"
    /\ nr_passed = 0
    /\ nr_calls = 0
    /\ page_ops = <<>>
    /\ nr_saves = 0
    /\ rr_pc = "idle"
    /\ rr_op = "none"
    /\ rr_regions = <<>>
    /\ rr_translations = <<>>
    /\ rr_font = "truetype"
    /\ text_colors = <<>>
    /\ draw_ops = <<>>
    /\ cc_bg = <<0, 0, 0>>
    /\ cc_color = <<0, 0, 0>>
    /\ font_path = FALSE
    /\ ins_pc = "idle"
    /\ ins_total = 0
    /\ ins_index = 0
    /\ tw = 0
    /\ ins_log = <<>>
    /\ written = <<>>
    /\ ins_error = "none"

NextTT == TranslateBatch \/ Translate
SpecTranslate == InitTranslate /\ [][NextTT]_vars

\* page-range parsing: any expression and page count, no parser called yet
InitPageRange ==
    /\ texts = <<>>
    /\ tt_op = "none"
    /\ tt_pc = "idle"
    /\ results = <<>>
    /\ requests = <<>>
    /\ batchReply = [kind |-> "none", list |-> <<>>]
    /\ singleReplies = <<>>
    /\ expr \in ExprPool
    /\ total_pages \in 0..MaxPages
    /\ pr_pc = "start"
    /\ pr_fn = "none"
    /\ pages = <<>>
    /\ warnings = <<>>
    /\ doc = <<>>
    /\ md_pc = "idle"
    /\ is_digital = FALSE
    /\ sampled = <<>>
    /\ cfg_mode = "missing"
    /\ file_exists = FALSE
    /\ has_callback = FALSE
    /\ num_workers = 1
    /\ pl_pc = "idle"
    /\ pl_error = "none"
    /\ mode = "none"
    /\ mode_decisions = 0
    /\ handles = NoHandles
    /\ callbacks = <<>>
    /\ stage_log = <<>>
    /\ page_indices = <<>>
    /\ all_regions = <<>>
    /\ tasks = <<>>
    /\ finish_order = <<>>
    /\ processed = <<>>
    /\ all_blocks = <<>>
    /\ replaced = {}
    /\ output = NoOutput
    /\ nr_doc = "none"
    /\ nr_blocks = <<>>
    /\ nr_translations = <<>>
    /\ nr_pc = "idle"
    /\ nr_op = "none"
    /\ nr_error = "none"
    /\ nr_passed = 0
    /\ nr_calls = 0
    /\ page_ops = <<>>
    /\ nr_saves = 0
    /\ rr_pc = "idle"
    /\ rr_op = "none"
    /\ rr_regions = <<>>
    /\ rr_translations = <<>>
    /\ rr_font = "truetype"
    /\ text_colors = <<>>
    /\ draw_ops = <<>>
    /\ cc_bg = <<0, 0, 0>>
    /\ cc_color = <<0, 0, 0>>
    /\ font_path = FALSE
    /\ ins_pc = "idle"
    /\ ins_total = 0
    /\ ins_index = 0
    /\ tw = 0
    /\ ins_log = <<>>
    /\ written = <<>>
    /\ ins_error = "none"

NextPR == ParsePageRange \/ TranslatorParsePageRange
SpecPageRange == InitPageRange /\ [][NextPR]_vars

\* mode selection: any open document, is_digital_pdf not called yet
InitMode ==
    /\ texts = <<>>
    /\ tt_op = "none"
    /\ tt_pc = "idle"
    /\ results = <<>>
    /\ requests = <<>>
    /\ batchReply = [kind |-> "none", list |-> <<>>]
    /\ singleReplies = <<>>
    /\ expr = <<>>
    /\ total_pages = 0
    /\ pr_pc = "idle"
    /\ pr_fn = "none"
    /\ pages = <<>>
    /\ warnings = <<>>
    /\ doc \in SeqsUpTo(PageTexts, MaxDocPages)
    /\ md_pc = "start"
    /\ is_digital = FALSE
    /\ sampled = <<>>
    /\ cfg_mode = "missing"
    /\ file_exists = FALSE
    /\ has_callback = FALSE
    /\ num_workers = 1
    /\ pl_pc = "idle"
    /\ pl_error = "none"
    /\ mode = "none"
    /\ mode_decisions = 0
    /\ handles = NoHandles
    /\ callbacks = <<>>
    /\ stage_log = <<>>
    /\ page_indices = <<>>
    /\ all_regions = <<>>
    /\ tasks = <<>>
    /\ finish_order = <<>>
    /\ processed = <<>>
    /\ all_blocks = <<>>
    /\ replaced = {}
    /\ output = NoOutput
    /\ nr_doc = "none"
    /\ nr_blocks = <<>>
    /\ nr_translations = <<>>
    /\ nr_pc = "idle"
    /\ nr_op = "none"
    /\ nr_error = "none"
    /\ nr_passed = 0
    /\ nr_calls = 0
    /\ page_ops = <<>>
    /\ nr_saves = 0
    /\ rr_pc = "idle"
    /\ rr_op = "none"
    /\ rr_regions = <<>>
    /\ rr_translations = <<>>
    /\ rr_font = "truetype"
    /\ text_colors = <<>>
    /\ draw_ops = <<>>
    /\ cc_bg = <<0, 0, 0>>
    /\ cc_color = <<0, 0, 0>>
    /\ font_path = FALSE
    /\ ins_pc = "idle"
    /\ ins_total = 0
    /\ ins_index = 0
    /\ tw = 0
    /\ ins_log = <<>>
    /\ written = <<>>
    /\ ins_error = "none"

NextMD == IsDigitalPdf
SpecMode == InitMode /\ [][NextMD]_vars

\* translate: any configuration, input and page range, translate just called
Init ==
    /\ texts = <<>>
    /\ tt_op = "none"
    /\ tt_pc = "idle"
    /\ results = <<>>
    /\ requests = <<>>
    /\ batchReply = [kind |-> "none", list |-> <<>>]
    /\ singleReplies = <<>>
    /\ expr \in PipelineExprs
    /\ total_pages = 0
    /\ pr_pc = "idle"
    /\ pr_fn = "none"
    /\ pages = <<>>
    /\ warnings = <<>>
    /\ doc \in SeqsUpTo(PipelinePages, MaxPages)
    /\ md_pc = "idle"
    /\ is_digital = FALSE
    /\ sampled = <<>>
    /\ cfg_mode \in {"missing", "ocr", "digital", "auto"}
    /\ file_exists \in BOOLEAN
    /\ has_callback \in BOOLEAN
    /\ num_workers \in 1..MaxWorkers
    /\ pl_pc = "start"
    /\ pl_error = "none"
    /\ mode = "none"
    /\ mode_decisions = 0
    /\ handles = NoHandles
    /\ callbacks = <<>>
    /\ stage_log = <<>>
    /\ page_indices = <<>>
    /\ all_regions = <<>>
    /\ tasks = <<>>
    /\ finish_order = <<>>
    /\ processed = <<>>
    /\ all_blocks = <<>>
    /\ replaced = {}
    /\ output = NoOutput
    /\ nr_doc = "none"
    /\ nr_blocks = <<>>
    /\ nr_translations = <<>>
    /\ nr_pc = "idle"
    /\ nr_op = "none"
    /\ nr_error = "none"
    /\ nr_passed = 0
    /\ nr_calls = 0
    /\ page_ops = <<>>
    /\ nr_saves = 0
    /\ rr_pc = "idle"
    /\ rr_op = "none"
    /\ rr_regions = <<>>
    /\ rr_translations = <<>>
    /\ rr_font = "truetype"
    /\ text_colors = <<>>
    /\ draw_ops = <<>>
    /\ cc_bg = <<0, 0, 0>>
    /\ cc_color = <<0, 0, 0>>
    /\ font_path = FALSE
    /\ ins_pc = "idle"
    /\ ins_total = 0
    /\ ins_index = 0
    /\ tw = 0
    /\ ins_log = <<>>
    /\ written = <<>>
    /\ ins_error = "none"

Next ==
    \/ Translate_Check
    \/ DetermineMode
    \/ Dispatch
    \/ Ocr_LoadPdf
    \/ Ocr_RunOcr
    \/ Ocr_Submit
    \/ \E j \in 1..Len(tasks) : Worker_Start(j)
    \/ \E j \in 1..Len(tasks) : Worker_Finish(j)
    \/ Ocr_Collect
    \/ Ocr_Save
    \/ Dig_Open
    \/ Dig_Extract
    \/ Dig_Translate
    \/ Dig_Save
Spec == Init /\ [][Next]_vars

\* PDFRenderer: a renderer just constructed, and the blocks and translations
\* of a page
InitNative ==
    /\ texts = <<>>
    /\ tt_op = "none"
    /\ tt_pc = "idle"
    /\ results = <<>>
    /\ requests = <<>>
    /\ batchReply = [kind |-> "none", list |-> <<>>]
    /\ singleReplies = <<>>
    /\ expr = <<>>
    /\ total_pages = 0
    /\ pr_pc = "idle"
    /\ pr_fn = "none"
    /\ pages = <<>>
    /\ warnings = <<>>
    /\ doc = <<>>
    /\ md_pc = "idle"
    /\ is_digital = FALSE
    /\ sampled = <<>>
    /\ cfg_mode = "missing"
    /\ file_exists = FALSE
    /\ has_callback = FALSE
    /\ num_workers = 1
    /\ pl_pc = "idle"
    /\ pl_error = "none"
    /\ mode = "none"
    /\ mode_decisions = 0
    /\ handles = NoHandles
    /\ callbacks = <<>>
    /\ stage_log = <<>>
    /\ page_indices = <<>>
    /\ all_regions = <<>>
    /\ tasks = <<>>
    /\ finish_order = <<>>
    /\ processed = <<>>
    /\ all_blocks = <<>>
    /\ replaced = {}
    /\ output = NoOutput
    /\ nr_doc = "none"
    /\ nr_blocks \in SeqsUpTo(BlockPool, MaxBlocks)
    /\ nr_translations \in SeqsUpTo(TranslationPool, MaxBlocks)
    /\ nr_pc = "ready"
    /\ nr_op = "none"
    /\ nr_error = "none"
    /\ nr_passed = 0
    /\ nr_calls = 0
    /\ page_ops = <<>>
    /\ nr_saves = 0
    /\ rr_pc = "idle"
    /\ rr_op = "none"
    /\ rr_regions = <<>>
    /\ rr_translations = <<>>
    /\ rr_font = "truetype"
    /\ text_colors = <<>>
    /\ draw_ops = <<>>
    /\ cc_bg = <<0, 0, 0>>
    /\ cc_color = <<0, 0, 0>>
    /\ font_path = FALSE
    /\ ins_pc = "idle"
    /\ ins_total = 0
    /\ ins_index = 0
    /\ tw = 0
    /\ ins_log = <<>>
    /\ written = <<>>
    /\ ins_error = "none"

NextNR ==
    \/ Renderer_Open
    \/ Renderer_Close
    \/ \E k \in 0..Len(nr_blocks) : ReplaceTextOnPage(k)
    \/ Renderer_Save
SpecNative == InitNative /\ [][NextNR]_vars

\* TextRenderer: any regions, translations and fonts, nothing called yet
InitRaster ==
    /\ texts = <<>>
    /\ tt_op = "none"
    /\ tt_pc = "idle"
    /\ results = <<>>
    /\ requests = <<>>
    /\ batchReply = [kind |-> "none", list |-> <<>>]
    /\ singleReplies = <<>>
    /\ expr = <<>>
    /\ total_pages = 0
    /\ pr_pc = "idle"
    /\ pr_fn = "none"
    /\ pages = <<>>
    /\ warnings = <<>>
    /\ doc = <<>>
    /\ md_pc = "idle"
    /\ is_digital = FALSE
    /\ sampled = <<>>
    /\ cfg_mode = "missing"
    /\ file_exists = FALSE
    /\ has_callback = FALSE
    /\ num_workers = 1
    /\ pl_pc = "idle"
    /\ pl_error = "none"
    /\ mode = "none"
    /\ mode_decisions = 0
    /\ handles = NoHandles
    /\ callbacks = <<>>
    /\ stage_log = <<>>
    /\ page_indices = <<>>
    /\ all_regions = <<>>
    /\ tasks = <<>>
    /\ finish_order = <<>>
    /\ processed = <<>>
    /\ all_blocks = <<>>
    /\ replaced = {}
    /\ output = NoOutput
    /\ nr_doc = "none"
    /\ nr_blocks = <<>>
    /\ nr_translations = <<>>
    /\ nr_pc = "idle"
    /\ nr_op = "none"
    /\ nr_error = "none"
    /\ nr_passed = 0
    /\ nr_calls = 0
    /\ page_ops = <<>>
    /\ nr_saves = 0
    /\ rr_pc = "start"
    /\ rr_op = "none"
    /\ rr_regions \in SeqsUpTo(RegionPool, MaxRegions)
    /\ rr_translations \in SeqsUpTo(RasterTextPool, MaxRegions)
    /\ rr_font \in {"truetype", "default", "unmeasurable"}
    /\ text_colors = <<>>
    /\ draw_ops = <<>>
    /\ cc_bg = <<0, 0, 0>>
    /\ cc_color = <<0, 0, 0>>
    /\ font_path = FALSE
    /\ ins_pc = "idle"
    /\ ins_total = 0
    /\ ins_index = 0
    /\ tw = 0
    /\ ins_log = <<>>
    /\ written = <<>>
    /\ ins_error = "none"

NextRR == RenderTranslations \/ GetContrastingColor
SpecRaster == InitRaster /\ [][NextRR]_vars

\* The insertion loop of replace_text_on_page: the redactions are applied,
\* `replacements` holds up to MaxInserts entries, nothing inserted yet
InitInsert ==
    /\ texts = <<>>
    /\ tt_op = "none"
    /\ tt_pc = "idle"
    /\ results = <<>>
    /\ requests = <<>>
    /\ batchReply = [kind |-> "none", list |-> <<>>]
    /\ singleReplies = <<>>
    /\ expr = <<>>
    /\ total_pages = 0
    /\ pr_pc = "idle"
    /\ pr_fn = "none"
    /\ pages = <<>>
    /\ warnings = <<>>
    /\ doc = <<>>
    /\ md_pc = "idle"
    /\ is_digital = FALSE
    /\ sampled = <<>>
    /\ cfg_mode = "missing"
    /\ file_exists = FALSE
    /\ has_callback = FALSE
    /\ num_workers = 1
    /\ pl_pc = "idle"
    /\ pl_error = "none"
    /\ mode = "none"
    /\ mode_decisions = 0
    /\ handles = NoHandles
    /\ callbacks = <<>>
    /\ stage_log = <<>>
    /\ page_indices = <<>>
    /\ all_regions = <<>>
    /\ tasks = <<>>
    /\ finish_order = <<>>
    /\ processed = <<>>
    /\ all_blocks = <<>>
    /\ replaced = {}
    /\ output = NoOutput
    /\ nr_doc = "none"
    /\ nr_blocks = <<>>
    /\ nr_translations = <<>>
    /\ nr_pc = "idle"
    /\ nr_op = "none"
    /\ nr_error = "none"
    /\ nr_passed = 0
    /\ nr_calls = 0
    /\ page_ops = <<>>
    /\ nr_saves = 0
    /\ rr_pc = "idle"
    /\ rr_op = "none"
    /\ rr_regions = <<>>
    /\ rr_translations = <<>>
    /\ rr_font = "truetype"
    /\ text_colors = <<>>
    /\ draw_ops = <<>>
    /\ cc_bg = <<0, 0, 0>>
    /\ cc_color = <<0, 0, 0>>
    /\ font_path \in BOOLEAN
    /\ ins_pc = "loop"
    /\ ins_total \in 0..MaxInserts
    /\ ins_index = 0
    /\ tw = 0
    /\ ins_log = <<>>
    /\ written = <<>>
    /\ ins_error = "none"

NextIns ==
    \/ InsertText_Enter
    \/ InsertText_FontFile
    \/ InsertText_Builtin
    \/ InsertText_Direct
    \/ Replace_Return
SpecInsert == InitInsert /\ [][NextIns]_vars




----------------------------------------------------------------------------
(* Properties of TextTranslator, checked under SpecTranslate               *)

\* "whitespace-trimmed form has length < 2 or consists entirely of digits",
\* stated on the positions of the non-whitespace characters
Skippable(t) ==
    LET core == {i \in 1..Len(t) : t[i] \notin Whitespace}
        first == CHOOSE i \in core : \A h \in core : i <= h
        last == CHOOSE i \in core : \A h \in core : h <= i
    IN  \/ core = {}
        \/ last - first + 1 < 2
        \/ \A i \in first..last : t[i] \in DigitChars

BatchReturned == tt_op = "translate_batch" /\ tt_pc = "returned"

\* C1: translate_batch returns a list as long as texts whose element i is the
\* translation of texts[i] or texts[i] itself, whatever the backend does.
C1_PositionalCorrespondence ==
    BatchReturned =>
        /\ Len(results) = Len(texts)
        /\ \A i \in 1..Len(texts) : results[i] \in {texts[i], Tr(texts[i])}

\* C2: translate_batch never raises, whatever error the backend produces.
C2_NeverRaises ==
    tt_op = "translate_batch" => tt_pc # "raised"

\* C3: for every non-skipped texts[i] the output at i is the backend's
\* non-empty translation of texts[i] or texts[i] itself, never an empty string.
C3_TextNeverDropped ==
    BatchReturned =>
        \A i \in 1..Len(texts) :
            ~Skippable(texts[i]) =>
                /\ results[i] # <<>>
                /\ results[i] = texts[i] \/ results[i] = Tr(texts[i])

\* C4: a skippable string is returned unchanged by translate_batch and by
\* translate and is in no request sent to the backend; when every item is
\* skippable the backend is not called; ["hello","5",""] with the backend
\* answering ["hola"] gives ["hola","5",""].
C4_SkipHeuristic ==
    tt_pc = "returned" =>
        /\ \A i \in 1..Len(texts) : Skippable(texts[i]) => results[i] = texts[i]
        /\ \A r \in 1..Len(requests) :
              IF requests[r].kind = "translate"
              THEN ~Skippable(requests[r].arg)
              ELSE \A j \in 1..Len(requests[r].arg) : ~Skippable(requests[r].arg[j])
        /\ (\A i \in 1..Len(texts) : Skippable(texts[i])) => requests = <<>>
        /\ ( /\ tt_op = "translate_batch"
             /\ texts = << <<"a", "a">>, <<"5">>, <<>> >>
             /\ batchReply = [kind |-> "list", list |-> <<Tr(<<"a", "a">>)>>] )
           => results = << Tr(<<"a", "a">>), <<"5">>, <<>> >>

C4_Witness ==
    /\ BatchReturned
    /\ texts = << <<"a", "a">>, <<" ", "a">>, <<"5", "5">> >>
    /\ Len(requests) = 1
    /\ results = << Tr(<<"a", "a">>), <<" ", "a">>, <<"5", "5">> >>

\* the non-skipped positions of texts, and the rank of one among them
NonSkipped == {i \in 1..Len(texts) : ~Skippable(texts[i])}
Rank(i) == Cardinality({h \in NonSkipped : h <= i})

\* C5: when the batch call raises, every non-skipped item is translated
\* individually, exactly once and in index order; an item whose call raises
\* keeps its source text and the others get their translations; no
\* individual call follows a batch call that did not raise.
C5_Fallback ==
    BatchReturned =>
        /\ batchReply.kind = "raise" =>
              /\ Len(requests) = 1 + Cardinality(NonSkipped)
              /\ requests[1].kind = "translate_batch"
              /\ Len(singleReplies) = Cardinality(NonSkipped)
              /\ \A i \in NonSkipped :
                    /\ requests[1 + Rank(i)] = [kind |-> "translate", arg |-> texts[i]]
                    /\ singleReplies[Rank(i)] = "raise" => results[i] = texts[i]
                    /\ singleReplies[Rank(i)] = "falsy" => results[i] = texts[i]
                    /\ singleReplies[Rank(i)] = "ok" => results[i] = Tr(texts[i])
        /\ batchReply.kind # "raise" =>
              \A r \in 1..Len(requests) : requests[r].kind # "translate"

C5_Witness ==
    /\ BatchReturned
    /\ batchReply.kind = "raise"
    /\ texts = << <<"a", "a">>, <<"5">>, <<"a", "5">> >>
    /\ singleReplies = <<"raise", "ok">>
    /\ results = << <<"a", "a">>, <<"5">>, Tr(<<"a", "5">>) >>

----------------------------------------------------------------------------
(* Properties of the page-range parsers, checked under SpecPageRange       *)

Parsed == pr_pc = "returned"
PageSet == {pages[i] : i \in 1..Len(pages)}

\* the comma-parts of the expression as the user wrote them, blanks removed
ExprParts == Split(RemoveSpaces(expr), ",")

\* the expression is empty or the word "all" (in any case, blanks aside)
KeywordLike == expr = <<>> \/ RemoveSpaces(Lower(expr)) = <<"a", "l", "l">>

\* an integer as int() reads it, with no dash in it
IntLiteral(s) == FirstIndex(s, "-", 1) = 0 /\ ParseInt(s).ok
DashCount(s) == Cardinality({i \in 1..Len(s) : s[i] = "-"})

\* a valid part: a single integer, or start-end with exactly one dash and an
\* integer on both sides
ValidPart(p) ==
    \/ IntLiteral(p)
    \/ /\ DashCount(p) = 1
       /\ LET k == CHOOSE i \in 1..Len(p) : p[i] = "-"
          IN  IntLiteral(SubSeq(p, 1, k - 1)) /\ IntLiteral(SubSeq(p, k + 1, Len(p)))

\* what a valid part selects: the 0-based indices i with i+1 in the part's
\* 1-based interval and in the document
Selected(p, n) ==
    IF IntLiteral(p)
    THEN {i \in 0..(n - 1) : i + 1 = ParseInt(p).val}
    ELSE LET k == CHOOSE i \in 1..Len(p) : p[i] = "-"
             lo == ParseInt(SubSeq(p, 1, k - 1)).val
             hi == ParseInt(SubSeq(p, k + 1, Len(p))).val
         IN  {i \in 0..(n - 1) : lo <= i + 1 /\ i + 1 <= hi}

InvalidParts == SelectSeq(ExprParts, LAMBDA p : ~ValidPart(p))
ValidPositions == {i \in 1..Len(ExprParts) : ValidPart(ExprParts[i])}

\* C6: the result is strictly ascending (so without duplicates), within
\* [0, total_pages), and empty when total_pages = 0.
C6_SortedUniqueInRange ==
    Parsed =>
        /\ \A i, j \in 1..Len(pages) : i < j => pages[i] < pages[j]
        /\ \A i \in 1..Len(pages) : 0 <= pages[i] /\ pages[i] < total_pages
        /\ total_pages = 0 => pages = <<>>

C6_Witness ==
    /\ Parsed
    /\ pr_fn = "utils"
    /\ expr = <<"2", ",", "1", "-", "2">>
    /\ total_pages = 2
    /\ pages = <<0, 1>>

\* C7 as claimed: an invalid part is skipped, the valid parts still
\* contribute, and a warning is emitted for the skipped part - by either parser.
C7_WarningFromEveryParser ==
    (Parsed /\ ~KeywordLike) =>
        /\ PageSet = UNION {Selected(ExprParts[i], total_pages) : i \in ValidPositions}
        /\ InvalidParts # <<>> => warnings # <<>>

\* C7 as amended: an invalid part is skipped by both parsers and the valid
\* parts still contribute; PDFTranslator._parse_page_range prints one warning
\* per skipped part, utils.parse_page_range skips it silently.
C7_SkipInvalidParts ==
    (Parsed /\ ~KeywordLike) =>
        /\ PageSet = UNION {Selected(ExprParts[i], total_pages) : i \in ValidPositions}
        /\ pr_fn = "translator" => warnings = InvalidParts
        /\ pr_fn = "utils" => warnings = <<>>

C7_Witness ==
    /\ Parsed
    /\ pr_fn = "translator"
    /\ expr = <<"a", "b", "c", ",", "2">>
    /\ total_pages = 2
    /\ pages = <<1>>
    /\ warnings = << <<"a", "b", "c">> >>

\* C8: a range part start-end contributes exactly the indices p-1 with
\* max(1,start) <= p <= min(total_pages,end); a single part p contributes
\* {p-1} iff 1 <= p <= total_pages; page 0 never contributes.
C8_PartContribution ==
    (Parsed /\ ~KeywordLike /\ Len(ExprParts) = 1 /\ ValidPart(ExprParts[1])) =>
        LET p == ExprParts[1]
        IN  IF DashCount(p) = 1
            THEN LET k == CHOOSE i \in 1..Len(p) : p[i] = "-"
                     start == ParseInt(SubSeq(p, 1, k - 1)).val
                     end == ParseInt(SubSeq(p, k + 1, Len(p))).val
                 IN  PageSet = {q - 1 : q \in Max(1, start)..Min(total_pages, end)}
            ELSE LET q == ParseInt(p).val
                 IN  /\ (1 <= q /\ q <= total_pages) => PageSet = {q - 1}
                     /\ ~(1 <= q /\ q <= total_pages) => PageSet = {}
                     /\ q = 0 => pages = <<>>

C8_Witness ==
    /\ Parsed
    /\ pr_fn = "utils"
    /\ expr = <<"0", "-", "3">>
    /\ total_pages = 2
    /\ pages = <<0, 1>>

\* C9: the empty string and "all" in any letter case give [0, ..., n-1].
C9_AllPages ==
    (Parsed /\ (expr = <<>> \/ expr \in AllWords)) =>
        /\ Len(pages) = total_pages
        /\ \A i \in 1..total_pages : pages[i] = i - 1

C9_Witness ==
    /\ Parsed
    /\ pr_fn = "utils"
    /\ expr = <<"A", "l", "L">>
    /\ total_pages = 2
    /\ pages = <<0, 1>>

----------------------------------------------------------------------------
(* Properties of the mode selection, checked under SpecMode                *)

\* C10: min(3, n) pages are sampled at i * max(1, n div 3); a sampled page
\* has text iff its trimmed text has at least 50 characters; the document is
\* native iff more than half of the sampled pages have text; never for n = 0.
C10_ModeSelection ==
    md_pc = "returned" =>
        LET n == Len(doc)
            k == Min(3, n)
            step == Max(1, n \div 3)
            withText == {j \in 1..k : doc[(j - 1) * step + 1].body >= 50}
        IN  /\ sampled = [j \in 1..k |-> (j - 1) * step]
            /\ is_digital <=> (n > 0 /\ 2 * Cardinality(withText) > k)
            /\ n = 0 => ~is_digital

C10_Witness ==
    /\ md_pc = "returned"
    /\ Len(doc) = 3
    /\ doc[1].body >= 50
    /\ doc[2].body = 0
    /\ doc[3].body >= 50
    /\ is_digital

----------------------------------------------------------------------------
(* Claims about PDFTranslator.translate                                    *)

OcrStages == {"ocr_load", "ocr_run", "ocr_process", "ocr_save"}
DigStages == {"dig_open", "dig_extract", "dig_translate", "dig_save"}
StagesEntered == {stage_log[k] : k \in 1..Len(stage_log)}
LastStage == IF stage_log = <<>> THEN "none" ELSE stage_log[Len(stage_log)]
PositionsOf(stage) == {k \in 1..Len(stage_log) : stage_log[k] = stage}

\* the mode decision has run and did not fail on reading the document
ModeDecisionOver ==
    /\ "determine_mode" \in StagesEntered
    /\ ~(LastStage = "determine_mode" /\ pl_error = "Exception")

\* what auto-detection answers for the input document
AutoDetected == IF is_digital_pdf(SAMPLE_PAGES) THEN "digital" ELSE "ocr"

\* C11: translate decides the mode exactly once and before every pipeline
\* stage; a configuration that does not force a mode gets the auto-detected
\* mode (digital: native pipeline, otherwise raster), a forcing one gets its
\* mode, and only the decided pipeline's stages run.
C11_ModeDecidedOnce ==
    ModeDecisionOver =>
        /\ mode_decisions = 1
        /\ mode = IF cfg_mode \in {"ocr", "digital"} THEN cfg_mode ELSE AutoDetected
        /\ \A k \in 1..Len(stage_log) :
              stage_log[k] \in OcrStages \cup DigStages =>
                  /\ \E d \in 1..(k - 1) : stage_log[d] = "determine_mode"
                  /\ stage_log[k] \in (IF mode = "digital" THEN DigStages ELSE OcrStages)

OcrChain == <<"check", "determine_mode", "ocr_load", "ocr_run", "ocr_process", "ocr_save">>
DigChain == <<"check", "determine_mode", "dig_open", "dig_extract", "dig_translate", "dig_save">>
SaveEntered == "ocr_save" \in StagesEntered \/ "dig_save" \in StagesEntered
\* the selected pages that have text blocks (native pipeline)
SelectedWithBlocks ==
    {page_indices[j] : j \in {i \in 1..Len(page_indices) : blocks_of(page_indices[i]) > 0}}

\* C12: the output is written once, by the final save step only; the save
\* step is entered only after the mode decision, extraction/OCR, translation
\* and rendering/replacement succeeded for every selected page; a run that
\* raised before the save wrote nothing; no stage is entered twice.
C12_SingleFinalSave ==
    /\ output.writes <= 1
    /\ output.writes = 1 => pl_pc = "returned" /\ SaveEntered
    /\ pl_pc = "raised" => output.writes = 0
    /\ \A stage \in StagesEntered : Cardinality(PositionsOf(stage)) = 1
    /\ (pl_pc = "ocr_save" \/ "ocr_save" \in StagesEntered) =>
          /\ stage_log \in {OcrChain, SubSeq(OcrChain, 1, Len(OcrChain) - 1)}
          /\ page_indices # <<>>
          /\ Len(all_regions) = Len(page_indices)
          /\ Len(processed) = Len(page_indices)
          /\ \A j \in 1..Len(page_indices) :
                /\ tasks[j].pc = "done"
                /\ processed[j] # NoPage
    /\ (pl_pc = "dig_save" \/ "dig_save" \in StagesEntered) =>
          /\ stage_log \in {DigChain, SubSeq(DigChain, 1, Len(DigChain) - 1)}
          /\ page_indices # <<>>
          /\ Len(all_blocks) = Len(page_indices)
          /\ replaced = SelectedWithBlocks

\* a raster run of two pages that saved its output
C12_Witness ==
    /\ pl_pc = "returned"
    /\ mode = "ocr"
    /\ Len(page_indices) = 2
    /\ output.writes = 1

Finished == pl_pc \in {"returned", "raised"}
\* the step denominator of the decided mode
TotalSteps == IF mode = "digital" THEN 3 ELSE 4

C14_PageIsolation ==
    /\ \A j \in 1..Len(tasks) :
          /\ tasks[j].pc \in {"running", "done", "failed"} =>
                /\ tasks[j].image = page_indices[j]
                /\ tasks[j].regions = all_regions[j]
          /\ tasks[j].pc = "done" =>
                /\ tasks[j].out.page = page_indices[j]
                /\ tasks[j].out.regions = all_regions[j].n
          /\ tasks[j].pc \in {"queued", "running", "failed"} => tasks[j].out = NoPage
    /\ processed # <<>> =>
          /\ Len(processed) = Len(page_indices)
          /\ \A j \in 1..Len(processed) :
                /\ all_regions[j].of = page_indices[j]
                /\ processed[j].page = page_indices[j]
                /\ processed[j].regions = all_regions[j].n
                /\ processed[j].rendered = (all_regions[j].n > 0)

\* two pages whose workers finished in reverse order, results collected
C14_Witness ==
    /\ processed # <<>>
    /\ finish_order = <<2, 1>>
    /\ page_indices[1] # page_indices[2]

\* C15: once translate has returned or raised, no document handle it opened
\* (mode-detection extractor, source extractor, output renderer) is open.
C15_HandlesClosed ==
    Finished => \A h \in HandleNames : handles[h] # "open"

----------------------------------------------------------------------------
(* Claims about PDFRenderer                                                *)

\* the step is a call of replace_text_on_page or save
RendererCall == nr_calls' = nr_calls + 1
\* the step leaves the document, the page and the output file as they were
NothingChanged == page_ops' = page_ops /\ nr_saves' = nr_saves /\ nr_doc' = nr_doc

\* C16: replace_text_on_page given block and translation lists of different
\* lengths raises the mismatch error before touching the page (no redaction
\* added or applied, no text inserted); with no document open,
\* replace_text_on_page and save raise "No document open" and change nothing.
C16_RejectBeforeMutation ==
    [][RendererCall =>
          /\ (nr_op' = "replace" /\ nr_doc = "pages" /\ nr_passed' # Len(nr_translations)) =>
                nr_error' = LengthMismatch /\ NothingChanged
          /\ (nr_op' \in {"replace", "save"} /\ nr_doc = "none") =>
                nr_error' = NoDocumentOpen /\ NothingChanged
          /\ nr_error' = "none" =>
                /\ nr_doc = "pages"
                /\ nr_op' = "replace" => nr_passed' = Len(nr_translations)]_vars

\* a mismatched call rejected on a page an earlier call had already changed
C16_Witness ==
    /\ nr_op = "replace"
    /\ nr_error = LengthMismatch
    /\ nr_doc = "pages"
    /\ nr_passed > Len(nr_translations)
    /\ page_ops # <<>>

RatEq(a, b) == a.n * b.d = b.n * a.d
\* the insert operations performed so far
Inserts == {k \in 1..Len(page_ops) : page_ops[k].op = "insert_text"}
InsBlock(k) == nr_blocks[page_ops[k].block]
InsTranslation(k) == nr_translations[page_ops[k].block]
\* original_font_size * (original_char_count / max(translated_char_count, 1)) * 1.2
Fitted(b, t) == Rat(b.font_size.n * b.len * 12, b.font_size.d * Max(t.len, 1) * 10)
Six == Rat(6, 1)

----------------------------------------------------------------------------
(* Claims about TextRenderer                                                *)

Rendered == rr_pc = "returned" /\ rr_op = "render"
TextOps == {k \in 1..Len(draw_ops) : draw_ops[k].op = "text"}
FillOps == {k \in 1..Len(draw_ops) : draw_ops[k].op = "fill"}
BoxWidth(box) == box[3] - box[1]
BoxHeight(box) == box[4] - box[2]
PositiveArea(box) == BoxWidth(box) > 0 /\ BoxHeight(box) > 0
NonBlank(t) == t.len > 0 /\ ~t.blank
\* the positions whose text the renderer has to draw
ToDraw ==
    {i \in 1..Min(Len(rr_regions), Len(rr_translations)) :
        PositiveArea(rr_regions[i].box) /\ NonBlank(rr_translations[i])}
Fits(k) == 100 * draw_ops[k].width <= 95 * BoxWidth(draw_ops[k].rect)

Luminance1000(c) ==
    IF Len(c) >= 3 THEN 299 * c[1] + 587 * c[2] + 114 * c[3] ELSE 1000 * c[1]
ContrastOf(c) == IF Luminance1000(c) < 128 * 1000 THEN White ELSE Black

\* C19: a region's text colour is white exactly when the luminance of its
\* background estimate is below 128 and black otherwise (a single-channel
\* estimate's scalar is its luminance), so it is black or white and differs
\* from the region's fill colour.
C19_ContrastByLuminance ==
    /\ Rendered =>
          \A k \in FillOps :
              /\ text_colors[draw_ops[k].region] = ContrastOf(draw_ops[k].color)
              /\ text_colors[draw_ops[k].region] \in {White, Black}
              /\ text_colors[draw_ops[k].region] # draw_ops[k].color
    /\ (rr_pc = "returned" /\ rr_op = "contrast") => cc_color = ContrastOf(cc_bg)

\* C20: render_translations erases every region (one fill of its box padded
\* by 2 pixels and clipped to the image, in list order) before it draws any
\* region's text: no fill comes after a text draw.
C20_EraseBeforeDraw ==
    Rendered =>
        /\ \A f \in FillOps : \A t \in TextOps : f < t
        /\ FillOps = 1..Len(rr_regions)
        /\ \A i \in 1..Len(rr_regions) :
              LET box == rr_regions[i].box
              IN  /\ draw_ops[i].region = i
                  /\ draw_ops[i].rect = << Max(0, box[1] - 2), Max(0, box[2] - 2),
                                           Min(ImageWidth, box[3] + 2),
                                           Min(ImageHeight, box[4] + 2) >>
        /\ \A t, u \in TextOps : t < u => draw_ops[t].region < draw_ops[u].region

\* two regions, both erased and both drawn
C20_Witness ==
    /\ Rendered
    /\ Len(rr_regions) = 2
    /\ Cardinality(TextOps) = 2

\* the pixels (x, y) a fill or a box covers: x1 <= x < x2 and y1 <= y < y2
RectEmpty(r) == r[1] >= r[3] \/ r[2] >= r[4]
InRect(x, y, r) == r[1] <= x /\ x < r[3] /\ r[2] <= y /\ y < r[4]

\* C21: a region whose box has width <= 0 or height <= 0 is skipped
\* entirely: its fill covers no pixel and no text is drawn for it.
C21_DegenerateSkipped ==
    Rendered =>
        \A k \in 1..Len(draw_ops) :
            ~PositiveArea(rr_regions[draw_ops[k].region].box) =>
                /\ draw_ops[k].op = "fill"
                /\ RectEmpty(draw_ops[k].rect)

\* the 100 x 100 pixels of the image
Pixels == (0..(ImageWidth - 1)) \X (0..(ImageHeight - 1))

Disjoint(a, b) == a[3] <= b[1] \/ b[3] <= a[1] \/ a[4] <= b[2] \/ b[4] <= a[2]

\* two boxes that share a part of an edge
Adjacent(a, b) ==
    \/ (a[3] = b[1] \/ b[3] = a[1]) /\ a[2] < b[4] /\ b[2] < a[4]
    \/ (a[4] = b[2] \/ b[4] = a[2]) /\ a[1] < b[3] /\ b[1] < a[3]

\* two adjacent, non-overlapping regions of positive area have been rendered
TwoAdjacentRendered ==
    /\ Rendered
    /\ Len(rr_regions) = 2
    /\ PositiveArea(rr_regions[1].box) /\ PositiveArea(rr_regions[2].box)
    /\ Disjoint(rr_regions[1].box, rr_regions[2].box)
    /\ Adjacent(rr_regions[1].box, rr_regions[2].box)

OutsideBoxes(x, y) ==
    ~InRect(x, y, rr_regions[1].box) /\ ~InRect(x, y, rr_regions[2].box)

\* the box grown by 2 pixels on every side
Grown2(box) == <<box[1] - 2, box[2] - 2, box[3] + 2, box[4] + 2>>

OutsideGrownBoxes(x, y) ==
    ~InRect(x, y, Grown2(rr_regions[1].box)) /\ ~InRect(x, y, Grown2(rr_regions[2].box))

\* the pixels an operation of the rendering writes
Written(x, y, k) ==
    IF draw_ops[k].op = "fill" THEN InRect(x, y, draw_ops[k].rect)
    ELSE InRect(x, y, text_rect(rr_font, draw_ops[k]))

\* the drawn text of operation k is no wider and no higher than its box
InsideBox(k) ==
    /\ draw_ops[k].width <= BoxWidth(draw_ops[k].rect)
    /\ measure_text_height(rr_font, draw_ops[k].size) <= BoxHeight(draw_ops[k].rect)

----------------------------------------------------------------------------
(* Claims about the phases of replace_text_on_page                         *)

\* the step is a call of replace_text_on_page that raised nothing
ReplaceDone == RendererCall /\ nr_op' = "replace" /\ nr_error' = "none"
\* the page operations of the call
NewOps == SubSeq(page_ops', Len(page_ops) + 1, Len(page_ops'))
\* the blocks of the call with a non-blank translation and a proper rectangle
Marked(i) ==
    /\ nr_translations[i].len > 0
    /\ ~nr_translations[i].blank
    /\ nr_blocks[i].rect_ok
MarkedBlocks(n) == {i \in 1..n : Marked(i)}

\* C23: the page operations of one replace_text_on_page call are, in order:
\* one redaction mark per block with a non-blank translation and a
\* non-degenerate rectangle, in block order; one apply_redactions; one
\* insertion per marked block, in block order.
C23_ThreePhases ==
    [][ReplaceDone =>
          LET new == NewOps
              m == Cardinality(MarkedBlocks(nr_passed'))
          IN  /\ Len(new) = 2 * m + 1
              /\ new[m + 1].op = "apply_redactions"
              /\ \A k \in 1..m :
                    /\ new[k].op = "add_redact_annot"
                    /\ new[m + 1 + k].op = "insert_text"
                    /\ new[k].block = new[m + 1 + k].block
                    /\ new[k].block \in MarkedBlocks(nr_passed')
                    /\ k < m => new[k].block < new[k + 1].block]_vars

\* a call that marked two blocks, applied, and inserted two texts
C23_Witness ==
    /\ nr_op = "replace"
    /\ nr_error = "none"
    /\ nr_passed = 2
    /\ Marked(1) /\ Marked(2)
    /\ Len(page_ops) >= 5

\* C24: in a replace_text_on_page call a block whose translation is empty or
\* blank, or whose rectangle is empty or infinite, gets no redaction mark and
\* no insertion; every other block of the call gets exactly one of each.
C24_SkippedUntouched ==
    [][ReplaceDone =>
          LET new == NewOps
              OpsOn(i, op) == {k \in 1..Len(new) : new[k].op = op /\ new[k].block = i}
          IN  \A i \in 1..nr_passed' :
                  /\ ~Marked(i) =>
                        OpsOn(i, "add_redact_annot") = {} /\ OpsOn(i, "insert_text") = {}
                  /\ Marked(i) =>
                        /\ Cardinality(OpsOn(i, "add_redact_annot")) = 1
                        /\ Cardinality(OpsOn(i, "insert_text")) = 1]_vars

\* a call with one skipped block and one processed block
C24_Witness ==
    /\ nr_op = "replace"
    /\ nr_error = "none"
    /\ nr_passed = 2
    /\ nr_calls = 1
    /\ \E i, j \in 1..2 : ~Marked(i) /\ Marked(j)
    /\ Len(page_ops) = 3

----------------------------------------------------------------------------
(* Claims about the insertion tiers                                        *)

\* the last tier tried for replacement i
LastTry(i) == ins_log[i][Len(ins_log[i])]

\* C25: for every replacement the tiers are tried in the order font file,
\* built-in font, page.insert_text: the font file first exactly when it is
\* available, each later tier only after the tier before it failed, nothing
\* after a tier that worked; and an exception leaves replace_text_on_page
\* only when page.insert_text itself raised, never from a font tier.
C25_ThreeTierDegrade ==
    /\ \A i \in 1..Len(ins_log) :
          LET log == ins_log[i]
          IN  /\ Len(log) > 0 => log[1].tier = (IF font_path THEN 1 ELSE 2)
              /\ \A k \in 1..(Len(log) - 1) :
                    ~log[k].ok /\ log[k + 1].tier = log[k].tier + 1
              /\ (i < Len(ins_log) \/ ins_pc \in {"loop", "returned"}) => LastTry(i).ok
    /\ ins_pc = "raised" <=> ins_error # "none"
    /\ ins_pc = "raised" =>
          LastTry(ins_index).tier = 3 /\ ~LastTry(ins_index).ok

\* returned without error after both font tiers failed for one replacement
\* and another replacement followed
C25_Witness ==
    /\ ins_pc = "returned"
    /\ ins_error = "none"
    /\ ins_total = 2
    /\ Len(ins_log[1]) = 3
    /\ LastTry(1).tier = 3 /\ LastTry(1).ok

\* C29: when replace_text_on_page has returned, the text of every
\* replacement has been written to the page exactly once.
C29_WrittenOnce ==
    ins_pc = "returned" => \A i \in 1..Len(written) : written[i] = 1

----------------------------------------------------------------------------
(* Claims about the raster fitter's sizes                                  *)

\* round(3 * h / 4) as Python rounds: to the nearest integer, a half to the even one
RoundThreeQuarters(h) ==
    LET q == (3 * h) \div 4
        r == (3 * h) % 4
    IN  IF r = 3 \/ (r = 2 /\ q % 2 = 1) THEN q + 1 ELSE q
\* clamp(v, 8, 48)
Clamp8To48(v) == Max(8, Min(v, 48))
\* the length of the text that operation k drew
TextLen(k) == rr_translations[draw_ops[k].region].len
\* would the text of operation k be at most 95% of its box wide at size s?
FitsAt(k, s) ==
    100 * measure_text(rr_font, TextLen(k), s) <= 95 * BoxWidth(draw_ops[k].rect)

\* C26: the initial font size is clamp(round(0.75 * h), 8, 48); a text that
\* fits at that size is therefore drawn at that size.
C26_RoundedInitialSize ==
    Rendered =>
        \A k \in TextOps :
            LET initial == Clamp8To48(RoundThreeQuarters(BoxHeight(draw_ops[k].rect)))
            IN  /\ draw_ops[k].size <= initial
                /\ FitsAt(k, initial) => draw_ops[k].size = initial

\* C27: the shrink loop ends with a size between 6 and the initial size
\* clamp(int(0.75 * h), 8, 48); the drawn width is the width measured at
\* that size; on exit the text fits or the size is 6; every size passed
\* over, one by one down from the initial size, was too wide, so that when
\* some size from 6 to the initial one fits, the final size is the largest
\* such size.
C27_ShrinkLoop ==
    Rendered =>
        /\ \A i \in ToDraw : \E k \in TextOps : draw_ops[k].region = i
        /\ \A k \in TextOps :
              LET initial == Clamp8To48((3 * BoxHeight(draw_ops[k].rect)) \div 4)
                  size == draw_ops[k].size
              IN  /\ size \in 6..initial
                  /\ draw_ops[k].width = measure_text(rr_font, TextLen(k), size)
                  /\ FitsAt(k, size) \/ size = 6
                  /\ \A s \in (size + 1)..initial : ~FitsAt(k, s)
                  /\ (\E s \in 6..initial : FitsAt(k, s)) => FitsAt(k, size)

\* one text shrunk to a fitting size above 6, one left at its initial size,
\* one stopped at 6 without fitting
C27_Witness ==
    /\ Rendered
    /\ \E k \in TextOps :
          /\ draw_ops[k].size > 6
          /\ draw_ops[k].size < Clamp8To48((3 * BoxHeight(draw_ops[k].rect)) \div 4)
          /\ FitsAt(k, draw_ops[k].size)
    /\ \E k \in TextOps :
          \/ draw_ops[k].size = Clamp8To48((3 * BoxHeight(draw_ops[k].rect)) \div 4)
          \/ draw_ops[k].size = 6 /\ ~FitsAt(k, 6)

----------------------------------------------------------------------------
(* Claims about the two page-range parsers                                 *)

\* C28: whichever of PDFTranslator._parse_page_range and
\* utils.parse_page_range ran, the list it returned is the list the other
\* one returns for the same expression and total_pages.
C28_ParsersAgree ==
    pr_pc = "returned" =>
        /\ pr_fn = "translator" => pages = parse_page_range(expr, total_pages)
        /\ pr_fn = "utils" => pages = translator_parse_page_range(expr, total_pages)

----------------------------------------------------------------------------
(* Claims about the pages of the saved output                              *)

\* the 0-based pages the page range selects in the input document
SelectedPages ==
    LET sel == translator_parse_page_range(expr, Len(doc))
    IN  {sel[j] : j \in 1..Len(sel)}

\* C30: a saved raster output holds exactly the selected pages, each once,
\* in ascending page order; a saved native output holds every page of the
\* input in document order, with text replaced on the selected pages (those
\* that have text) and on no unselected page.
C30_OutputPages ==
    output.writes > 0 =>
        /\ mode = "ocr" =>
              /\ {output.pages[k].page : k \in 1..Len(output.pages)} = SelectedPages
              /\ \A k \in 1..(Len(output.pages) - 1) :
                    output.pages[k].page < output.pages[k + 1].page
        /\ mode = "digital" =>
              /\ Len(output.pages) = Len(doc)
              /\ \A p \in 1..Len(output.pages) :
                    /\ output.pages[p].page = p - 1
                    /\ output.pages[p].rendered =>
                          (p - 1) \in SelectedPages
                    /\ ((p - 1) \in SelectedPages /\ StrippedLen(doc[p]) > 0) =>
                          output.pages[p].rendered

\* a native run that replaced the text of the one selected page and left an
\* unselected page that has text as it was
C30_Witness ==
    /\ pl_pc = "returned"
    /\ mode = "digital"
    /\ output.writes = 1
    /\ \E p, q \in 1..Len(output.pages) :
          /\ output.pages[p].rendered
          /\ (q - 1) \notin SelectedPages
          /\ StrippedLen(doc[q]) > 0
          /\ ~output.pages[q].rendered

====
